---- MODULE Spec2Model ----
(***************************************************************************)
(* A model of the copperx Telegram bot: the in-memory session store, the   *)
(* token registry, the update dispatcher of index.ts and the handlers of   *)
(* the login and transfer flows, with every handler cut into the atomic    *)
(* segments that lie between two of its awaits (one JavaScript event-loop   *)
(* turn each).                                                             *)
(*                                                                         *)
(* The messaging transport is taken to deliver: a ctx.reply or             *)
(* ctx.editMessageText resolves, it does not throw.  An await of such a    *)
(* call is kept as a suspension point whenever the handler touches the     *)
(* session store or the token registry after it; a reply that ends a       *)
(* handler, and a reply followed only by a call that carries no bearer     *)
(* token, is folded into the segment before it.  The last-action stamp of  *)
(* a session record is not modelled.                                       *)
(***************************************************************************)
EXTENDS Integers, Sequences, FiniteSets, Bags, TLC

(***************************************************************************)
(* Bounds of the model.                                                    *)
(***************************************************************************)
\* handlers of one process that may be suspended at an await at the same time
MaxInFlight == 2

(***************************************************************************)
(* JavaScript values, as far as the handlers use them.                     *)
(***************************************************************************)
Undefined == [k |-> "undefined"]
Bool(b) == [k |-> "boolean", b |-> b]
Str(s) == [k |-> "string", s |-> s]
\* a finite number, in thousandths
Num(n) == [k |-> "number", n |-> n]
NaN == [k |-> "NaN"]
Null == [k |-> "null"]
List(s) == [k |-> "array", s |-> s]

\* the truthiness of a value (!!v)
Truthy(v) ==
  CASE v.k = "undefined" -> FALSE
    [] v.k = "boolean" -> v.b
    [] v.k = "string" -> v.s # <<>>
    [] v.k = "number" -> v.n # 0
    [] v.k = "NaN" -> FALSE
    [] v.k = "null" -> FALSE
    [] OTHER -> TRUE

(***************************************************************************)
(* Texts are sequences of characters.                                      *)
(***************************************************************************)
Digits == {"0", "1", "2", "3", "4", "5", "6", "7", "8", "9"}
Space == " "

RECURSIVE TrimLeft(_)
TrimLeft(s) == IF s # <<>> /\ Head(s) = Space THEN TrimLeft(Tail(s)) ELSE s

RECURSIVE TrimRight(_)
TrimRight(s) ==
  IF s # <<>> /\ s[Len(s)] = Space THEN TrimRight(SubSeq(s, 1, Len(s) - 1)) ELSE s

\* String.prototype.trim
Trim(s) == TrimRight(TrimLeft(s))

\* [^\s@]+ over the whole of s
NoSpaceNoAt(s) == s # <<>> /\ \A i \in 1..Len(s) : s[i] \notin {Space, "@"}

\* /^[^\s@]+@[^\s@]+\.[^\s@]+$/.test(s)
emailRegex(s) ==
  \E i \in 1..Len(s) : \E j \in 1..Len(s) :
    /\ i < j
    /\ s[i] = "@"
    /\ s[j] = "."
    /\ NoSpaceNoAt(SubSeq(s, 1, i - 1))
    /\ NoSpaceNoAt(SubSeq(s, i + 1, j - 1))
    /\ NoSpaceNoAt(SubSeq(s, j + 1, Len(s)))

\* /^\d{4,8}$/.test(s)
otpRegex(s) == Len(s) \in 4..8 /\ \A i \in 1..Len(s) : s[i] \in Digits

DigitVal(c) ==
  CASE c = "0" -> 0 [] c = "1" -> 1 [] c = "2" -> 2 [] c = "3" -> 3 [] c = "4" -> 4
    [] c = "5" -> 5 [] c = "6" -> 6 [] c = "7" -> 7 [] c = "8" -> 8 [] c = "9" -> 9

\* the length of the longest prefix of s made of digits
RECURSIVE DigitRun(_)
DigitRun(s) == IF s # <<>> /\ Head(s) \in Digits THEN 1 + DigitRun(Tail(s)) ELSE 0

RECURSIVE DecVal(_, _)
DecVal(s, acc) == IF s = <<>> THEN acc ELSE DecVal(Tail(s), 10 * acc + DigitVal(Head(s)))

\* the first three fraction digits, as thousandths
FracVal(s) ==
  LET d(i) == IF i <= Len(s) THEN DigitVal(s[i]) ELSE 0
  IN 100 * d(1) + 10 * d(2) + d(3)

\* parseFloat(s): the longest numeric prefix (sign, digits, fraction) of s after
\* leading blanks, in thousandths; NaN when there is none.  Exponents and
\* "Infinity" are outside the texts of the model.
parseFloat(s) ==
  LET t == TrimLeft(s)
      neg == t # <<>> /\ Head(t) = "-"
      u == IF t # <<>> /\ Head(t) \in {"-", "+"} THEN Tail(t) ELSE t
      ni == DigitRun(u)
      rest == SubSeq(u, ni + 1, Len(u))
      hasDot == rest # <<>> /\ Head(rest) = "."
      nf == IF hasDot THEN DigitRun(Tail(rest)) ELSE 0
      mag == 1000 * DecVal(SubSeq(u, 1, ni), 0)
               + (IF hasDot THEN FracVal(SubSeq(Tail(rest), 1, nf)) ELSE 0)
  IN IF ni = 0 /\ nf = 0 THEN NaN ELSE Num(IF neg THEN 0 - mag ELSE mag)

(***************************************************************************)
(* The state of the process.                                               *)
(*   sessions       sessionManager's map chat id -> UserSession            *)
(*   userTokens     api.ts: chat id -> access token                        *)
(*   refreshTokens  api.ts: chat id -> refresh token                       *)
(*   tokenExpiry    api.ts: chat id -> expiry stamp                        *)
(*   procs          the bag of handlers suspended at an await               *)
(*   fx             what the last step did: the update it handled, the     *)
(*                  requests it sent, the replies it gave (an observer)    *)
(***************************************************************************)
VARIABLES sessions, userTokens, refreshTokens, tokenExpiry, procs, fx

vars == <<sessions, userTokens, refreshTokens, tokenExpiry, procs, fx>>

\* chat ids
Chats == {"A", "B"}

\* enum BotState
START == "start"
AUTH_EMAIL == "auth_email"
AUTH_OTP == "auth_otp"
MAIN_MENU == "main_menu"
WALLET_MENU == "wallet_menu"
TRANSFER_MENU == "transfer_menu"
TRANSFER_EMAIL == "transfer_email"
TRANSFER_WALLET == "transfer_wallet"
TRANSFER_BANK == "transfer_bank"
PROFILE == "profile"

(***************************************************************************)
(* A world is the part of the state a handler segment reads and writes,    *)
(* with the requests it has sent and the replies it has given so far.      *)
(***************************************************************************)
World ==
  [sessions |-> sessions, userTokens |-> userTokens, refreshTokens |-> refreshTokens,
   tokenExpiry |-> tokenExpiry, sent |-> <<>>, replies |-> <<>>]

\* the function f without the key k (delete f[k])
Delete(f, k) == [x \in DOMAIN f \ {k} |-> f[x]]

\* f[k], undefined when f has no key k
Lookup(f, k) == IF k \in DOMAIN f THEN f[k] ELSE Undefined

(***************************************************************************)
(* utils/sessionManager                                                    *)
(***************************************************************************)
\* a default record in MAIN_MENU
DefaultSession_menu(chatId) == [userId |-> chatId, currentState |-> MAIN_MENU, tempData |-> <<>>]

\* the record getSession and clearSession create
DefaultSession(chatId) == [userId |-> chatId, currentState |-> START, tempData |-> <<>>]

\* getSession's effect: a chat never referenced gets the default record
getSession(W, chatId) ==
  IF chatId \in DOMAIN W.sessions
    THEN W
    ELSE [W EXCEPT !.sessions = (chatId :> DefaultSession(chatId)) @@ W.sessions]

\* getSession's result
Session(W, chatId) == getSession(W, chatId).sessions[chatId]

\* setSession that keeps nothing of the stored record
setSession_replace(W, chatId, sessionData) ==
  [W EXCEPT !.sessions = (chatId :> (sessionData @@ DefaultSession(chatId))) @@ W.sessions]

\* setSession: the given fields over those of the stored (or default) record
setSession(W, chatId, sessionData) ==
  [W EXCEPT !.sessions = (chatId :> (sessionData @@ Session(W, chatId))) @@ W.sessions]

\* isAuthenticated's result (its getSession is the caller's to apply)
isAuthenticated(W, chatId) == Truthy(Lookup(Session(W, chatId), "organizationId"))

\* clearSession that resets state and scratch map only
clearSession_partial(W, chatId) ==
  setSession(W, chatId, [currentState |-> START, tempData |-> <<>>])

clearSession(W, chatId) ==
  [W EXCEPT !.sessions = (chatId :> DefaultSession(chatId)) @@ W.sessions]

updateState(W, chatId, state) == setSession(W, chatId, [currentState |-> state])

\* getState's result
getState(W, chatId) == Session(W, chatId).currentState

setTempData(W, chatId, key, value) ==
  setSession(W, chatId, [tempData |-> (key :> value) @@ Session(W, chatId).tempData])

\* getTempData's result
getTempData(W, chatId, key) == Lookup(Session(W, chatId).tempData, key)

clearTempData(W, chatId) == setSession(W, chatId, [tempData |-> <<>>])

(***************************************************************************)
(* utils/api: the token registry                                           *)
(***************************************************************************)
setTokenForUser(W, userId, token) ==
  [W EXCEPT !.userTokens = (userId :> token) @@ W.userTokens]

setRefreshTokenForUser(W, userId, token) ==
  [W EXCEPT !.refreshTokens = (userId :> token) @@ W.refreshTokens]

setTokenExpiryForUser(W, userId, expiryTimestamp) ==
  [W EXCEPT !.tokenExpiry = (userId :> expiryTimestamp) @@ W.tokenExpiry]

\* userId is a chat id, or "" where the caller passes none
getTokenForUser(W, userId) ==
  IF userId = "" THEN Null
  ELSE IF Truthy(Lookup(W.userTokens, userId)) THEN W.userTokens[userId] ELSE Null

\* clearTokenForUser that empties the registry
clearTokenForUser_everyone(W, userId) ==
  [W EXCEPT !.userTokens = <<>>, !.refreshTokens = <<>>, !.tokenExpiry = <<>>]

\* clearTokenForUser that deletes the access token only
clearTokenForUser_accessOnly(W, userId) ==
  [W EXCEPT !.userTokens = Delete(W.userTokens, userId)]

clearTokenForUser(W, userId) ==
  [W EXCEPT !.userTokens = Delete(W.userTokens, userId),
            !.refreshTokens = Delete(W.refreshTokens, userId),
            !.tokenExpiry = Delete(W.tokenExpiry, userId)]

(***************************************************************************)
(* JSON objects of the payments API, and the results of the services.      *)
(***************************************************************************)
Obj(f) == [k |-> "object", o |-> f]

\* v?.key
Get(v, key) == IF v.k = "object" THEN Lookup(v.o, key) ELSE Undefined

\* v?.k1?.k2 ...
RECURSIVE Path(_, _)
Path(v, keys) == IF keys = <<>> THEN v ELSE Path(Get(v, Head(keys)), Tail(keys))

\* a token, an organization id, a message: a one-word string
Word(w) == Str(<<w>>)

(***************************************************************************)
(* Handlers in flight.  A process is a handler suspended at an await: pc   *)
(* names the await, gw the stage of the gateway call it waits for (if      *)
(* any), the other fields are the handler's locals.                        *)
(***************************************************************************)
Idle == [pc |-> "idle"]
NoCall == [st |-> "none"]

\* what a handler segment returns: the world it leaves and the process it
\* leaves suspended (Idle when the handler has returned)
Finish(W) == [w |-> W, p |-> Idle]
Suspend(W, p, pc) == [w |-> W, p |-> [pc |-> pc, gw |-> NoCall] @@ p]

\* ctx.reply / ctx.editMessageText / ctx.answerCbQuery
reply(W, text) == [W EXCEPT !.replies = Append(@, text)]

(***************************************************************************)
(* utils/api: the gateway                                                  *)
(***************************************************************************)
\* the request interceptor and the send: the bearer token is read from the
\* registry when the request leaves
Send(W, api, userId, body, retry) ==
  [W EXCEPT !.sent = Append(@, [api |-> api, userId |-> userId, body |-> body,
                                auth |-> getTokenForUser(W, userId), retry |-> retry])]

\* apiRequest: the request leaves and the caller is suspended on it
apiRequest(W, p, pc, api, userId, body) ==
  [w |-> Send(W, api, userId, body, FALSE),
   p |-> [pc |-> pc, gw |-> [st |-> "sent", api |-> api, userId |-> userId, body |-> body]] @@ p]

\* what the transport gives back for one send
HttpOk(data) == [t |-> "ok", data |-> data]
HttpError(status) == [t |-> "error", status |-> status]
NetworkError == [t |-> "network"]

Unauthorized == 401
ServerError == 500

\* the response interceptor's error branch for the first answer to a request:
\* "refresh" (the refresh call leaves), or "reject"
OnError(W, gw, out) ==
  IF /\ out.t = "error" /\ out.status = Unauthorized
     /\ gw.st = "sent"
     /\ gw.userId # ""
     /\ Truthy(Lookup(W.refreshTokens, gw.userId))
    THEN "refresh"
    ELSE "reject"

\* the refresh call of the response interceptor leaves (axios.post, no interceptor)
SendRefresh(W, gw) ==
  [W EXCEPT !.sent = Append(@, [api |-> "refresh", userId |-> "", retry |-> FALSE,
                                body |-> Lookup(W.refreshTokens, gw.userId), auth |-> Null])]

\* new Date(v).getTime(): the instants of the model are all the same one
DateGetTime(v) == IF v.k = "string" /\ v.s # <<>> THEN Num(1000) ELSE NaN

\* the refresh call has answered: "retry" (tokens stored, the original request
\* sent again), "reject" (the first 401 goes to the caller), or "clear"
\* (the registry is cleared, then the first 401 goes to the caller)
RefreshVerdict(out) ==
  IF out.t # "ok" \/ out.data.k \in {"undefined", "null"} THEN "clear"
  ELSE IF Truthy(Get(out.data, "tokens")) /\ Truthy(Path(out.data, <<"tokens", "access">>))
    THEN "retry"
    ELSE "reject"

\* SendRetry without the Authorization header
SendRetry_bare(W, gw, token) ==
  [W EXCEPT !.sent = Append(@, [api |-> gw.api, userId |-> gw.userId, body |-> gw.body,
                                auth |-> Null, retry |-> TRUE])]

\* the retried request leaves: the header set by the interceptor's error branch,
\* overwritten by the request interceptor when the registry holds a token
SendRetry(W, gw, token) ==
  LET stored == getTokenForUser(W, gw.userId)
  IN [W EXCEPT !.sent = Append(@, [api |-> gw.api, userId |-> gw.userId, body |-> gw.body,
                                   auth |-> IF Truthy(stored) THEN stored ELSE token,
                                   retry |-> TRUE])]

OnRefreshed(W, gw, out) ==
  LET tokens == Get(out.data, "tokens")
      access == Path(tokens, <<"access", "token">>)
      W1 == setTokenForUser(W, gw.userId, access)
      W2 == IF Truthy(Get(tokens, "refresh"))
              THEN setTokenExpiryForUser(
                     setRefreshTokenForUser(W1, gw.userId, Path(tokens, <<"refresh", "token">>)),
                     gw.userId, DateGetTime(Path(tokens, <<"access", "expires">>)))
              ELSE W1
  IN CASE RefreshVerdict(out) = "retry" -> SendRetry(W2, gw, access)
       [] RefreshVerdict(out) = "clear" -> clearTokenForUser(W, gw.userId)
       [] OTHER -> W

(***************************************************************************)
(* services: the transport's answer turned into the result the handler     *)
(* gets.  Each returns the world it leaves (w) and the result (r).         *)
(***************************************************************************)
True == Bool(TRUE)
False == Bool(FALSE)

\* the catch branch of a service: { status: false, message, error }
Failure(out) ==
  Obj([status |-> False, message |-> Word("failed"),
       error |-> IF out.t = "error" THEN Num(1000 * out.status) ELSE Word("network")])

\* a reply body JavaScript cannot read a property of
Unreadable(out) == out.t = "ok" /\ out.data.k \in {"undefined", "null"}

\* the services of walletService, transferService and getKycStatus:
\* try { return await get/post/put(...) } catch { return failure }
plainService(W, out) ==
  [w |-> W, r |-> IF out.t = "ok" THEN out.data ELSE Failure(out)]

\* authService.getUserProfile: as above, and a 401 clears the registry
getUserProfile(W, out, userId) ==
  [w |-> IF out.t = "error" /\ out.status = Unauthorized THEN clearTokenForUser(W, userId) ELSE W,
   r |-> IF out.t = "ok" THEN out.data ELSE Failure(out)]

\* requestEmailOtp that takes a response without markers for a failure
requestEmailOtp_strict(W, out) ==
  LET response == out.data
      marked == \/ Get(response, "status") = True
                \/ Get(response, "success") = True
                \/ Get(response, "code") = Num(200000)
                \/ Get(response, "statusCode") = Num(200000)
                \/ (Truthy(Get(response, "message")) /\ ~Truthy(Get(response, "error")))
  IN [w |-> W,
      r |-> IF out.t # "ok" \/ Unreadable(out) THEN Failure(out)
            ELSE IF marked
              THEN Obj([status |-> True,
                        message |-> IF Truthy(Get(response, "message"))
                                      THEN Get(response, "message") ELSE Word("sent_successfully"),
                        data |-> Get(response, "data")])
            ELSE IF Get(response, "status") = False THEN response
            ELSE Obj([status |-> False, message |-> Word("unexpected_format"),
                      error |-> response])]

\* authService.requestEmailOtp
requestEmailOtp(W, out) ==
  LET response == out.data
      marked == \/ Get(response, "status") = True
                \/ Get(response, "success") = True
                \/ Get(response, "code") = Num(200000)
                \/ Get(response, "statusCode") = Num(200000)
                \/ (Truthy(Get(response, "message")) /\ ~Truthy(Get(response, "error")))
  IN [w |-> W,
      r |-> IF out.t # "ok" \/ Unreadable(out) THEN Failure(out)
            ELSE IF marked
              THEN Obj([status |-> True,
                        message |-> IF Truthy(Get(response, "message"))
                                      THEN Get(response, "message") ELSE Word("sent_successfully"),
                        data |-> Get(response, "data")])
            ELSE IF Get(response, "status") = False THEN response
            ELSE Obj([status |-> True, message |-> Word("sent"),
                      data |-> IF Truthy(Get(response, "data"))
                                 THEN Get(response, "data") ELSE response])]

\* the registry writes of authenticateWithOtp for the tokens object it found
StoreTokens(W, userId, tokens) ==
  LET W1 == setTokenForUser(W, userId, Path(tokens, <<"access", "token">>))
      W2 == IF Truthy(Path(tokens, <<"refresh", "token">>))
              THEN setRefreshTokenForUser(W1, userId, Path(tokens, <<"refresh", "token">>))
              ELSE W1
  IN IF Truthy(Path(tokens, <<"access", "expires">>))
       THEN setTokenExpiryForUser(W2, userId, DateGetTime(Path(tokens, <<"access", "expires">>)))
       ELSE W2

\* authenticateWithOtp that takes a response without markers for a success
authenticateWithOtp_lenient(W, out, email, userId) ==
  LET response == out.data
      canonical == /\ (Get(response, "status") = True \/ Get(response, "success") = True)
                   /\ Truthy(Path(response, <<"data", "tokens", "access", "token">>))
      flattened == Truthy(Path(response, <<"tokens", "access", "token">>))
  IN IF out.t # "ok" \/ Unreadable(out) THEN [w |-> W, r |-> Failure(out)]
     ELSE IF canonical THEN
       [w |-> StoreTokens(W, userId, Path(response, <<"data", "tokens">>)),
        r |-> Obj([status |-> True,
                   message |-> IF Truthy(Get(response, "message"))
                                 THEN Get(response, "message") ELSE Word("authenticated"),
                   data |-> Get(response, "data")])]
     ELSE IF flattened THEN
       [w |-> StoreTokens(W, userId, Get(response, "tokens")),
        r |-> Obj([status |-> True, message |-> Word("authenticated"),
                   data |-> Obj([tokens |-> Get(response, "tokens"),
                                 user |-> IF Truthy(Get(response, "user"))
                                            THEN Get(response, "user")
                                            ELSE Obj([email |-> email,
                                                      organizationId |-> Str(<<>>),
                                                      id |-> Str(<<>>)])])])]
     ELSE IF Get(response, "status") = False THEN [w |-> W, r |-> response]
     ELSE [w |-> W, r |-> Obj([status |-> True, message |-> Word("authenticated"),
                               data |-> response])]

\* authenticateWithOtp that looks for top-level tokens first
authenticateWithOtp_flatFirst(W, out, email, userId) ==
  LET response == out.data
      canonical == /\ (Get(response, "status") = True \/ Get(response, "success") = True)
                   /\ Truthy(Path(response, <<"data", "tokens", "access", "token">>))
      flattened == Truthy(Path(response, <<"tokens", "access", "token">>))
  IN IF out.t # "ok" \/ Unreadable(out) THEN [w |-> W, r |-> Failure(out)]
     ELSE IF flattened THEN
       [w |-> StoreTokens(W, userId, Get(response, "tokens")),
        r |-> Obj([status |-> True, message |-> Word("authenticated"),
                   data |-> Obj([tokens |-> Get(response, "tokens"),
                                 user |-> IF Truthy(Get(response, "user"))
                                            THEN Get(response, "user")
                                            ELSE Obj([email |-> email,
                                                      organizationId |-> Str(<<>>),
                                                      id |-> Str(<<>>)])])])]
     ELSE IF canonical THEN
       [w |-> StoreTokens(W, userId, Path(response, <<"data", "tokens">>)),
        r |-> Obj([status |-> True,
                   message |-> IF Truthy(Get(response, "message"))
                                 THEN Get(response, "message") ELSE Word("authenticated"),
                   data |-> Get(response, "data")])]
     ELSE IF Get(response, "status") = False THEN [w |-> W, r |-> response]
     ELSE [w |-> W, r |-> Obj([status |-> False, message |-> Word("unexpected_format"),
                               error |-> response])]

\* authService.authenticateWithOtp
authenticateWithOtp(W, out, email, userId) ==
  LET response == out.data
      canonical == /\ (Get(response, "status") = True \/ Get(response, "success") = True)
                   /\ Truthy(Path(response, <<"data", "tokens", "access", "token">>))
      flattened == Truthy(Path(response, <<"tokens", "access", "token">>))
  IN IF out.t # "ok" \/ Unreadable(out) THEN [w |-> W, r |-> Failure(out)]
     ELSE IF canonical THEN
       [w |-> StoreTokens(W, userId, Path(response, <<"data", "tokens">>)),
        r |-> Obj([status |-> True,
                   message |-> IF Truthy(Get(response, "message"))
                                 THEN Get(response, "message") ELSE Word("authenticated"),
                   data |-> Get(response, "data")])]
     ELSE IF flattened THEN
       [w |-> StoreTokens(W, userId, Get(response, "tokens")),
        r |-> Obj([status |-> True, message |-> Word("authenticated"),
                   data |-> Obj([tokens |-> Get(response, "tokens"),
                                 user |-> IF Truthy(Get(response, "user"))
                                            THEN Get(response, "user")
                                            ELSE Obj([email |-> email,
                                                      organizationId |-> Str(<<>>),
                                                      id |-> Str(<<>>)])])])]
     ELSE IF Get(response, "status") = False THEN [w |-> W, r |-> response]
     ELSE [w |-> W, r |-> Obj([status |-> False, message |-> Word("unexpected_format"),
                               error |-> response])]

(***************************************************************************)
(* handlers/authHandlers.  A handler is one operator per segment: the one  *)
(* named after the handler runs from its entry to its first await, the     *)
(* others run from the completion of an await (named in the operator) to   *)
(* the next one.  p is the process: its chat, its update, its locals.      *)
(***************************************************************************)
\* bot.catch: the handler threw, the user gets the error message
botCatch(W) == Finish(reply(W, "error_occurred"))

handleStart(W, p) == Finish(reply(updateState(W, p.chat, START), "welcome"))

handleLogin(W, p) == Finish(reply(updateState(W, p.chat, AUTH_EMAIL), "enter_email"))

handleLogout(W, p) == Finish(reply(clearSession(W, p.chat), "logged_out"))

handleEmailInput(W, p) ==
  LET email == Trim(p.upd.data)
  IN IF ~emailRegex(email)
       THEN Finish(reply(W, "invalid_email"))
       ELSE apiRequest(reply(W, "requesting_code"), [email |-> Str(email)] @@ p,
                       "email_otp", "otp_request", "", Obj([email |-> Str(email)]))

\* requestEmailOtp has answered; the loading message is being deleted
handleEmailInput_otp(W, p, out) ==
  LET a == requestEmailOtp(W, out) IN Suspend(a.w, [response |-> a.r] @@ p, "email_delete")

\* handleEmailInput_delete without the test of response.status
handleEmailInput_delete_always(W, p) ==
  LET response == p.response
      W1 == setTempData(W, p.chat, "email", p.email)
      W2 == IF Truthy(Get(response, "data")) /\ Truthy(Path(response, <<"data", "sid">>))
              THEN setTempData(W1, p.chat, "sid", Path(response, <<"data", "sid">>))
              ELSE W1
  IN Finish(reply(updateState(W2, p.chat, AUTH_OTP), "code_sent"))

handleEmailInput_delete(W, p) ==
  LET response == p.response
      W1 == setTempData(W, p.chat, "email", p.email)
      W2 == IF Truthy(Get(response, "data")) /\ Truthy(Path(response, <<"data", "sid">>))
              THEN setTempData(W1, p.chat, "sid", Path(response, <<"data", "sid">>))
              ELSE W1
  IN IF Truthy(Get(response, "status"))
       THEN Finish(reply(updateState(W2, p.chat, AUTH_OTP), "code_sent"))
       ELSE Finish(reply(W, "code_not_sent"))

handleOtpInput(W, p) ==
  LET otp == Trim(p.upd.data)
      email == getTempData(W, p.chat, "email")
      W1 == getSession(W, p.chat)
  IN IF ~Truthy(email) THEN Finish(reply(W1, "session_expired"))
     ELSE IF ~otpRegex(otp) THEN Finish(reply(W1, "otp_format"))
     ELSE apiRequest(reply(W1, "verifying"), [email |-> email, otp |-> Str(otp)] @@ p,
                     "otp_auth", "otp_authenticate", "", Obj([email |-> email, otp |-> Str(otp)]))

\* authenticateWithOtp has answered; the loading message is being deleted
handleOtpInput_auth(W, p, out) ==
  LET a == authenticateWithOtp(W, out, p.email, p.chat)
  IN Suspend(a.w, [authResponse |-> a.r] @@ p, "otp_delete")

\* handleOtpInput_delete that gives up when the chat has left AUTH_OTP
handleOtpInput_delete_guarded(W, p) ==
  LET authResponse == p.authResponse
      userData == Path(authResponse, <<"data", "user">>)
  IN IF getState(W, p.chat) # AUTH_OTP THEN Finish(W)
     ELSE IF Truthy(Get(authResponse, "status")) /\ Truthy(Get(authResponse, "data"))
       THEN IF userData.k \in {"undefined", "null"}
              THEN botCatch(W)
              ELSE apiRequest(setSession(W, p.chat,
                                [email |-> Get(userData, "email"),
                                 organizationId |-> Get(userData, "organizationId"),
                                 authenticated |-> True,
                                 currentState |-> MAIN_MENU]),
                              p, "otp_profile", "me", p.chat, Undefined)
       ELSE Finish(reply(W, "verification_failed"))

handleOtpInput_delete(W, p) ==
  LET authResponse == p.authResponse
      userData == Path(authResponse, <<"data", "user">>)
  IN IF Truthy(Get(authResponse, "status")) /\ Truthy(Get(authResponse, "data"))
       THEN IF userData.k \in {"undefined", "null"}
              THEN botCatch(W)
              ELSE apiRequest(setSession(W, p.chat,
                                [email |-> Get(userData, "email"),
                                 organizationId |-> Get(userData, "organizationId"),
                                 authenticated |-> True,
                                 currentState |-> MAIN_MENU]),
                              p, "otp_profile", "me", p.chat, Undefined)
       ELSE Finish(reply(W, "verification_failed"))

\* getUserProfile has answered
handleOtpInput_profile(W, p, out) ==
  apiRequest(getUserProfile(W, out, p.chat).w, p, "otp_kyc", "kycs", p.chat, Undefined)

\* getKycStatus has answered
handleOtpInput_kyc(W, p, out) == Finish(reply(W, "login_successful"))

handleProfile(W, p) ==
  LET W1 == getSession(W, p.chat)
  IN IF ~Truthy(Lookup(Session(W, p.chat), "authenticated"))
       THEN Finish(reply(W1, "need_login"))
       ELSE Suspend(reply(W1, "fetching_profile"), p, "profile_loading")

handleProfile_loading(W, p) == apiRequest(W, p, "profile_me", "me", p.chat, Undefined)

\* getUserProfile has answered; the loading message is being deleted
handleProfile_me(W, p, out) ==
  LET a == getUserProfile(W, out, p.chat) IN Suspend(a.w, [response |-> a.r] @@ p, "profile_delete")

handleProfile_delete(W, p) ==
  IF Truthy(Get(p.response, "status")) /\ Truthy(Get(p.response, "data"))
    THEN apiRequest(W, p, "profile_kyc", "kycs", p.chat, Undefined)
    ELSE Finish(W)

\* getKycStatus has answered
handleProfile_kyc(W, p, out) == Finish(reply(W, "profile"))

(***************************************************************************)
(* handlers/menuHandlers (the part the transfer handlers call)             *)
(***************************************************************************)
handleMenu(W, p) ==
  Finish(reply(getSession(W, p.chat),
               IF isAuthenticated(W, p.chat) THEN "menu" ELSE "menu_not_logged_in"))

(***************************************************************************)
(* handlers/transferHandlers                                               *)
(***************************************************************************)
\* callback data are sequences of words and separators
StartsWith(d, prefix) == Len(d) >= Len(prefix) /\ SubSeq(d, 1, Len(prefix)) = prefix

\* data.match(/prefix(.+)/)[1] for data that starts with prefix; <<>> is no match
MatchAfter(d, prefix) == SubSeq(d, Len(prefix) + 1, Len(d))

\* a service result with status && data && data.length > 0
HasRows(r) ==
  /\ Truthy(Get(r, "status"))
  /\ Truthy(Get(r, "data"))
  /\ Get(r, "data").k = "array"
  /\ Len(Get(r, "data").s) > 0

handleTransferHistory(W, p) == Suspend(reply(W, "fetching_history"), p, "history_loading")

handleTransferHistory_loading(W, p) ==
  apiRequest(W, p, "history_get", "transfers", p.chat, Undefined)

\* getTransferHistory has answered
handleTransferHistory_get(W, p, out) ==
  LET r == plainService(W, out).r
      rows == Path(r, <<"data", "data">>)
  IN IF Truthy(Get(r, "status")) /\ Truthy(Get(r, "data")) /\ rows.k \in {"undefined", "null"}
       THEN botCatch(W)
       ELSE Finish(reply(W, IF /\ Truthy(Get(r, "status")) /\ Truthy(Get(r, "data"))
                               /\ rows.k = "array" /\ Len(rows.s) > 0
                              THEN "history" ELSE "no_history"))

handleSendCommand(W, p) ==
  Finish(reply(updateState(W, p.chat, TRANSFER_MENU), "transfer_options"))

handleTransferTypeCallback(W, p) ==
  LET transferType == MatchAfter(p.upd.data, <<"transfer", ":">>)
  IN IF transferType = <<>> THEN Finish(W)
     ELSE Suspend(reply(W, CASE transferType = <<"email">> -> "enter_recipient_email"
                             [] transferType = <<"wallet">> -> "enter_wallet_address"
                             [] transferType = <<"bank">> -> "enter_full_name"
                             [] transferType = <<"cancel">> -> "transfer_cancelled"
                             [] OTHER -> "invalid_option"),
                  [transferType |-> transferType] @@ p, "type_edit")

\* handleTransferTypeCallback_edit with a cancel that keeps the scratch map
handleTransferTypeCallback_edit_kept(W, p) ==
  CASE p.transferType = <<"email">> -> Finish(updateState(W, p.chat, TRANSFER_EMAIL))
    [] p.transferType = <<"wallet">> -> Finish(updateState(W, p.chat, TRANSFER_WALLET))
    [] p.transferType = <<"bank">> -> Finish(updateState(W, p.chat, TRANSFER_BANK))
    [] p.transferType = <<"cancel">> -> handleMenu(updateState(W, p.chat, MAIN_MENU), p)
    [] OTHER -> Finish(updateState(W, p.chat, MAIN_MENU))

\* the message has been edited
handleTransferTypeCallback_edit(W, p) ==
  CASE p.transferType = <<"email">> -> Finish(updateState(W, p.chat, TRANSFER_EMAIL))
    [] p.transferType = <<"wallet">> -> Finish(updateState(W, p.chat, TRANSFER_WALLET))
    [] p.transferType = <<"bank">> -> Finish(updateState(W, p.chat, TRANSFER_BANK))
    [] p.transferType = <<"cancel">> ->
         handleMenu(clearTempData(updateState(W, p.chat, MAIN_MENU), p.chat), p)
    [] OTHER -> Finish(updateState(W, p.chat, MAIN_MENU))

handleEmailTransferFlow(W, p) ==
  LET state == getState(W, p.chat)
      text == Trim(p.upd.data)
      W1 == getSession(W, p.chat)
  IN IF state # TRANSFER_EMAIL THEN Finish(W1)
     ELSE IF ~emailRegex(text) THEN Finish(reply(W1, "invalid_email"))
     ELSE apiRequest(setTempData(W1, p.chat, "transferEmail", Str(text)), p,
                     "emailflow_balances", "balances", p.chat, Undefined)

\* getWalletBalances has answered (handleEmailTransferFlow, handleWalletAddressInput)
afterBalances(W, p, out) ==
  LET balanceResponse == plainService(W, out).r
  IN IF HasRows(balanceResponse)
       THEN Finish(reply(setTempData(W, p.chat, "availableNetworks", Get(balanceResponse, "data")),
                         "select_network"))
       ELSE Suspend(reply(W, "no_balance"), p, "no_balance_reply")

\* the "no available balance" reply has been sent
afterNoBalance(W, p) == Finish(updateState(W, p.chat, MAIN_MENU))

handleNetworkCallback(W, p) ==
  LET network == MatchAfter(p.upd.data, <<"network", ":">>)
  IN IF network = <<>> THEN Finish(W)
     ELSE Suspend(reply(setTempData(W, p.chat, "transferNetwork", Str(network)), "enter_amount"),
                  p, "network_edit")

\* the message has been edited
handleNetworkCallback_edit(W, p) == Finish(setTempData(W, p.chat, "awaitingAmount", True))

\* handleWalletAddressInput without the test of the length
handleWalletAddressInput_anyLength(W, p) ==
  LET state == getState(W, p.chat)
      walletAddress == Trim(p.upd.data)
      W1 == getSession(W, p.chat)
  IN IF state # TRANSFER_WALLET THEN Finish(W1)
     ELSE apiRequest(setTempData(W1, p.chat, "transferWalletAddress", Str(walletAddress)), p,
                     "wallet_balances", "balances", p.chat, Undefined)

handleWalletAddressInput(W, p) ==
  LET state == getState(W, p.chat)
      walletAddress == Trim(p.upd.data)
      W1 == getSession(W, p.chat)
  IN IF state # TRANSFER_WALLET THEN Finish(W1)
     ELSE IF Len(walletAddress) < 20 THEN Finish(reply(W1, "invalid_address"))
     ELSE apiRequest(setTempData(W1, p.chat, "transferWalletAddress", Str(walletAddress)), p,
                     "wallet_balances", "balances", p.chat, Undefined)

handleBankTransferFlow(W, p) ==
  LET state == getState(W, p.chat)
      text == Str(Trim(p.upd.data))
      W1 == getSession(W, p.chat)
      name == getTempData(W, p.chat, "bankName")
      accountNumber == getTempData(W, p.chat, "bankAccountNumber")
      routingNumber == getTempData(W, p.chat, "bankRoutingNumber")
  IN IF state # TRANSFER_BANK THEN Finish(W1)
     ELSE IF ~Truthy(name)
       THEN Finish(reply(setTempData(W1, p.chat, "bankName", text), "enter_account_number"))
     ELSE IF ~Truthy(accountNumber)
       THEN Finish(reply(setTempData(W1, p.chat, "bankAccountNumber", text), "enter_routing_number"))
     ELSE IF ~Truthy(routingNumber)
       THEN Finish(reply(setTempData(W1, p.chat, "bankRoutingNumber", text), "enter_bank_name"))
     ELSE apiRequest(setTempData(W1, p.chat, "bankInstitutionName", text), p,
                     "bank_balances", "balances", p.chat, Undefined)

\* getWalletBalances has answered
handleBankTransferFlow_balances(W, p, out) ==
  IF HasRows(plainService(W, out).r)
    THEN Suspend(reply(W, "enter_withdraw_amount"), p, "bank_prompt")
    ELSE Suspend(reply(W, "no_balance"), p, "no_balance_reply")

\* the amount prompt has been sent
handleBankTransferFlow_prompt(W, p) == Finish(setTempData(W, p.chat, "awaitingAmount", True))

\* String.prototype.toLowerCase, over the letters of the model's texts
LowerChar(c) ==
  CASE c = "S" -> "s" [] c = "K" -> "k" [] c = "I" -> "i" [] c = "P" -> "p"
    [] c = "A" -> "a" [] c = "B" -> "b" [] c = "H" -> "h" [] OTHER -> c

toLowerCase(s) == [i \in 1..Len(s) |-> LowerChar(s[i])]

\* confirmEmailTransfer
confirmEmailTransfer(W, p) ==
  LET email == getTempData(W, p.chat, "transferEmail")
      amount == getTempData(W, p.chat, "transferAmount")
      network == getTempData(W, p.chat, "transferNetwork")
  IN IF ~Truthy(email) \/ ~Truthy(amount) \/ ~Truthy(network)
       THEN Suspend(reply(W, "missing_details"), p, "confirm_email_missing")
       ELSE Finish(reply(W, "confirm_email_transfer"))

\* the "missing details" reply of confirmEmailTransfer has been sent
confirmEmailTransfer_missing(W, p) ==
  handleSendCommand(updateState(W, p.chat, MAIN_MENU), p)

\* handleMessageInput
handleMessageInput(W, p) ==
  LET isAwaitingMessage == getTempData(W, p.chat, "awaitingMessage")
      text == Trim(p.upd.data)
      message == IF toLowerCase(text) = <<"s", "k", "i", "p">> THEN <<>> ELSE text
      W1 == getSession(W, p.chat)
  IN IF ~Truthy(isAwaitingMessage) THEN Finish(W1)
     ELSE confirmEmailTransfer(
            setTempData(setTempData(W1, p.chat, "transferMessage", Str(message)),
                        p.chat, "awaitingMessage", False), p)

\* confirmWalletTransfer, called by handleAmountInput: handleMessageInput is next
confirmWalletTransfer(W, p) ==
  LET walletAddress == getTempData(W, p.chat, "transferWalletAddress")
      amount == getTempData(W, p.chat, "transferAmount")
      network == getTempData(W, p.chat, "transferNetwork")
  IN IF ~Truthy(walletAddress) \/ ~Truthy(amount) \/ ~Truthy(network)
       THEN Suspend(reply(W, "missing_details"), p, "confirm_wallet_missing")
       ELSE Suspend(reply(W, "confirm_wallet_transfer"), p, "then_message")

\* the "missing details" edit of confirmWalletTransfer has been made
confirmWalletTransfer_missing(W, p) ==
  Suspend(handleSendCommand(updateState(W, p.chat, MAIN_MENU), p).w, p, "then_message")

\* confirmBankTransfer, called by handleAmountInput: handleMessageInput is next
confirmBankTransfer(W, p) ==
  LET name == getTempData(W, p.chat, "bankName")
      accountNumber == getTempData(W, p.chat, "bankAccountNumber")
      routingNumber == getTempData(W, p.chat, "bankRoutingNumber")
      bankName == getTempData(W, p.chat, "bankInstitutionName")
      amount == getTempData(W, p.chat, "transferAmount")
  IN IF \/ ~Truthy(name) \/ ~Truthy(accountNumber) \/ ~Truthy(routingNumber)
        \/ ~Truthy(bankName) \/ ~Truthy(amount)
       THEN Suspend(reply(W, "missing_details"), p, "confirm_bank_missing")
       ELSE Suspend(reply(W, "confirm_bank_transfer"), p, "then_message")

\* the "missing details" reply of confirmBankTransfer has been sent
confirmBankTransfer_missing(W, p) ==
  handleMessageInput(updateState(W, p.chat, MAIN_MENU), p)

\* handleAmountInput, and (where no await lies between) the handleMessageInput
\* that the text dispatcher calls after it
handleAmountInput(W, p) ==
  LET isAwaitingAmount == getTempData(W, p.chat, "awaitingAmount")
      text == Trim(p.upd.data)
      amount == parseFloat(text)
      W1 == getSession(W, p.chat)
      state == getState(W, p.chat)
      W2 == setTempData(setTempData(W1, p.chat, "transferAmount", amount),
                        p.chat, "awaitingAmount", False)
      email == getTempData(W, p.chat, "transferEmail")
      walletAddress == getTempData(W, p.chat, "transferWalletAddress")
      allBank == /\ Truthy(getTempData(W, p.chat, "bankName"))
                 /\ Truthy(getTempData(W, p.chat, "bankAccountNumber"))
                 /\ Truthy(getTempData(W, p.chat, "bankRoutingNumber"))
                 /\ Truthy(getTempData(W, p.chat, "bankInstitutionName"))
  IN IF ~Truthy(isAwaitingAmount) THEN handleMessageInput(W1, p)
     ELSE IF amount.k = "NaN" \/ amount.n <= 0
       THEN Suspend(reply(W1, "invalid_amount"), p, "then_message")
     ELSE IF state = TRANSFER_EMAIL /\ Truthy(email)
       THEN Suspend(reply(W2, "optional_message"), p, "amount_message_prompt")
     ELSE IF state = TRANSFER_WALLET /\ Truthy(walletAddress)
       THEN confirmWalletTransfer(W2, p)
     ELSE IF state = TRANSFER_BANK /\ allBank
       THEN confirmBankTransfer(W2, p)
     ELSE handleMessageInput(W2, p)

\* the prompt for the optional message has been sent
handleAmountInput_prompt(W, p) ==
  handleMessageInput(setTempData(W, p.chat, "awaitingMessage", True), p)

\* the confirmed transfer is on its way: the "processing" edit is being made
\* with the payload built from the scratch values read at entry
executeTransfer(W, p, api, transferData) ==
  Suspend(reply(getSession(W, p.chat), "processing"),
          [api |-> api, transferData |-> transferData] @@ p, "execute_processing")

\* a confirm handler found a required value missing: the edit that says so
executeMissing(W, p) ==
  Suspend(reply(getSession(W, p.chat), "missing_details"), p, "execute_missing")

executeEmailTransfer(W, p) ==
  LET email == getTempData(W, p.chat, "transferEmail")
      amount == getTempData(W, p.chat, "transferAmount")
      stored == getTempData(W, p.chat, "transferMessage")
      message == IF Truthy(stored) THEN stored ELSE Str(<<>>)
      network == getTempData(W, p.chat, "transferNetwork")
  IN IF ~Truthy(email) \/ ~Truthy(amount) \/ ~Truthy(network)
       THEN executeMissing(W, p)
       ELSE executeTransfer(W, p, "transfers/send",
              Obj([email |-> email, amount |-> amount, asset |-> Word("USDC"),
                   network |-> network, message |-> message]))

executeWalletTransfer(W, p) ==
  LET walletAddress == getTempData(W, p.chat, "transferWalletAddress")
      amount == getTempData(W, p.chat, "transferAmount")
      network == getTempData(W, p.chat, "transferNetwork")
  IN IF ~Truthy(walletAddress) \/ ~Truthy(amount) \/ ~Truthy(network)
       THEN executeMissing(W, p)
       ELSE executeTransfer(W, p, "transfers/wallet-withdraw",
              Obj([address |-> walletAddress, amount |-> amount, asset |-> Word("USDC"),
                   network |-> network]))

\* executeBankTransfer without the check of the amount
executeBankTransfer_anyAmount(W, p) ==
  LET name == getTempData(W, p.chat, "bankName")
      accountNumber == getTempData(W, p.chat, "bankAccountNumber")
      routingNumber == getTempData(W, p.chat, "bankRoutingNumber")
      bankName == getTempData(W, p.chat, "bankInstitutionName")
      amount == getTempData(W, p.chat, "transferAmount")
  IN IF \/ ~Truthy(name) \/ ~Truthy(accountNumber) \/ ~Truthy(routingNumber)
        \/ ~Truthy(bankName)
       THEN executeMissing(W, p)
       ELSE executeTransfer(W, p, "transfers/offramp",
              Obj([name |-> name, accountNumber |-> accountNumber,
                   routingNumber |-> routingNumber, bankName |-> bankName,
                   amount |-> amount, asset |-> Word("USDC")]))

executeBankTransfer(W, p) ==
  LET name == getTempData(W, p.chat, "bankName")
      accountNumber == getTempData(W, p.chat, "bankAccountNumber")
      routingNumber == getTempData(W, p.chat, "bankRoutingNumber")
      bankName == getTempData(W, p.chat, "bankInstitutionName")
      amount == getTempData(W, p.chat, "transferAmount")
  IN IF \/ ~Truthy(name) \/ ~Truthy(accountNumber) \/ ~Truthy(routingNumber)
        \/ ~Truthy(bankName) \/ ~Truthy(amount)
       THEN executeMissing(W, p)
       ELSE executeTransfer(W, p, "transfers/offramp",
              Obj([name |-> name, accountNumber |-> accountNumber,
                   routingNumber |-> routingNumber, bankName |-> bankName,
                   amount |-> amount, asset |-> Word("USDC")]))

\* the "missing details" edit has been made
executeTransfer_missing(W, p) == handleSendCommand(updateState(W, p.chat, MAIN_MENU), p)

\* the "processing" edit has been made: send*Transfer
executeTransfer_processing(W, p) ==
  apiRequest(W, p, "execute_send", p.api, p.chat, p.transferData)

\* send*Transfer has answered: the edit that tells the outcome
executeTransfer_send(W, p, out) ==
  LET response == plainService(W, out).r
  IN Suspend(reply(W, IF Truthy(Get(response, "status")) /\ Truthy(Get(response, "data"))
                       THEN "transfer_successful" ELSE "transfer_failed"),
             [response |-> response] @@ p, "execute_result")

\* the reset without clearTempData
executeTransfer_result_kept(W, p) == Finish(updateState(W, p.chat, MAIN_MENU))

\* the outcome has been shown: reset state
executeTransfer_result(W, p) == Finish(clearTempData(updateState(W, p.chat, MAIN_MENU), p.chat))

\* callback data of the confirmation keyboards
confirm_email_transfer == <<"confirm_", "email_transfer">>
confirm_wallet_transfer == <<"confirm_", "wallet_transfer">>
confirm_bank_transfer == <<"confirm_", "bank_transfer">>
cancel_transfer == <<"cancel_transfer">>

\* handleTransferConfirmation with the cancel button taken as a confirm
handleTransferConfirmation_cancelSubmits(W, p) ==
  LET callbackData == p.upd.data
  IN CASE callbackData = confirm_email_transfer -> executeEmailTransfer(W, p)
       [] callbackData = confirm_wallet_transfer -> executeWalletTransfer(W, p)
       [] callbackData = confirm_bank_transfer -> executeBankTransfer(W, p)
       [] callbackData = cancel_transfer -> executeEmailTransfer(W, p)
       [] OTHER -> Finish(W)

handleTransferConfirmation(W, p) ==
  LET callbackData == p.upd.data
  IN CASE callbackData = confirm_email_transfer -> executeEmailTransfer(W, p)
       [] callbackData = confirm_wallet_transfer -> executeWalletTransfer(W, p)
       [] callbackData = confirm_bank_transfer -> executeBankTransfer(W, p)
       [] callbackData = cancel_transfer ->
            Suspend(reply(W, "transfer_cancelled"), p, "cancel_edit")
       [] OTHER -> Finish(W)

\* the "cancelled" edit has been made
handleTransferConfirmation_cancel(W, p) ==
  handleMenu(clearTempData(updateState(W, p.chat, MAIN_MENU), p.chat), p)

(***************************************************************************)
(* handlers/walletHandlers                                                 *)
(***************************************************************************)
handleBalance(W, p) == Suspend(reply(W, "fetching_balances"), p, "balance_loading")

handleBalance_loading(W, p) == apiRequest(W, p, "balance_get", "balances", p.chat, Undefined)

\* getWalletBalances has answered; the loading message is being deleted
handleBalance_get(W, p, out) ==
  Suspend(W, [response |-> plainService(W, out).r] @@ p, "balance_delete")

handleBalance_delete(W, p) ==
  Finish(reply(W, IF HasRows(p.response) THEN "balances" ELSE "no_balances"))

handleWallets(W, p) == Suspend(reply(W, "fetching_wallets"), p, "wallets_loading")

handleWallets_loading(W, p) == apiRequest(W, p, "wallets_get", "wallets", p.chat, Undefined)

\* getWallets has answered: getDefaultWallet
handleWallets_get(W, p, out) ==
  apiRequest(W, [response |-> plainService(W, out).r] @@ p,
             "wallets_default", "wallets/default", p.chat, Undefined)

\* getDefaultWallet has answered; the loading message is being deleted
handleWallets_default(W, p, out) == Suspend(W, p, "wallets_delete")

\* handleWallets and handleSetDefaultWallet after the loading message is gone
handleWallets_delete(W, p) ==
  IF HasRows(p.response)
    THEN Finish(reply(setTempData(W, p.chat, "wallets", Get(p.response, "data")), "wallets"))
    ELSE Finish(reply(W, "no_wallets"))

handleDeposit(W, p) == Suspend(reply(W, "fetching_deposit"), p, "deposit_loading")

handleDeposit_loading(W, p) == apiRequest(W, p, "deposit_get", "wallets", p.chat, Undefined)

\* getWallets has answered; the loading message is being deleted
handleDeposit_get(W, p, out) ==
  Suspend(W, [response |-> plainService(W, out).r] @@ p, "deposit_delete")

handleDeposit_delete(W, p) ==
  Finish(reply(W, IF HasRows(p.response) THEN "deposit_info" ELSE "no_wallets"))

handleSetDefaultWallet(W, p) == Suspend(reply(W, "fetching_wallets"), p, "setdefault_loading")

handleSetDefaultWallet_loading(W, p) ==
  apiRequest(W, p, "setdefault_get", "wallets", p.chat, Undefined)

\* getWallets has answered; the loading message is being deleted
handleSetDefaultWallet_get(W, p, out) ==
  Suspend(W, [response |-> plainService(W, out).r] @@ p, "wallets_delete")

handleSetDefaultWalletCallback(W, p) ==
  LET walletId == MatchAfter(p.upd.data, <<"set_default_wallet", ":">>)
  IN IF walletId = <<>> THEN Finish(W)
     ELSE Suspend(reply(W, "setting_default"), [walletId |-> Str(walletId)] @@ p, "setdefault_edit")

\* the "setting" edit has been made: setDefaultWallet
handleSetDefaultWalletCallback_edit(W, p) ==
  apiRequest(W, p, "setdefault_put", "wallets/default:put", p.chat, Obj([walletId |-> p.walletId]))

\* setDefaultWallet has answered
handleSetDefaultWalletCallback_put(W, p, out) ==
  LET response == plainService(W, out).r
  IN Finish(reply(W, IF Truthy(Get(response, "status")) /\ Truthy(Get(response, "data"))
                       THEN "default_updated" ELSE "default_failed"))

(***************************************************************************)
(* handlers/menuHandlers: the rest                                         *)
(***************************************************************************)
handleHelp(W, p) ==
  Finish(reply(getSession(W, p.chat),
               IF isAuthenticated(W, p.chat) THEN "help_full" ELSE "help_basic"))

handleSupport(W, p) == Finish(reply(W, "support"))

\* the actions of the menu keyboard
MenuActions ==
  {<<"profile">>, <<"logout">>, <<"balance">>, <<"wallets">>, <<"deposit">>,
   <<"set_default_wallet">>, <<"send">>, <<"transfers">>, <<"login">>, <<"help">>,
   <<"support">>, <<"menu">>}

handleMenuCallback(W, p) ==
  LET action == MatchAfter(p.upd.data, <<"menu", ":">>)
  IN IF action = <<>> THEN Finish(W)
     ELSE IF action \in MenuActions
       THEN Suspend(reply(W, "answerCbQuery"), [action |-> action] @@ p, "menu_ack")
       ELSE Finish(reply(W, "unknown_option"))

\* the callback has been acknowledged: the handler of the action
handleMenuCallback_ack(W, p) ==
  CASE p.action = <<"profile">> -> handleProfile(W, p)
    [] p.action = <<"logout">> -> handleLogout(W, p)
    [] p.action = <<"balance">> -> handleBalance(W, p)
    [] p.action = <<"wallets">> -> handleWallets(W, p)
    [] p.action = <<"deposit">> -> handleDeposit(W, p)
    [] p.action = <<"set_default_wallet">> -> handleSetDefaultWallet(W, p)
    [] p.action = <<"send">> -> handleSendCommand(W, p)
    [] p.action = <<"transfers">> -> handleTransferHistory(W, p)
    [] p.action = <<"login">> -> handleLogin(W, p)
    [] p.action = <<"help">> -> handleHelp(W, p)
    [] p.action = <<"support">> -> handleSupport(W, p)
    [] OTHER -> handleMenu(W, p)

\* handleHelpCallback, handleSupportCallback
handleBackToMenu(W, p, prefix) ==
  IF p.upd.data = <<prefix, ":", "back_to_menu">>
    THEN Suspend(reply(W, "answerCbQuery"), p, "back_ack")
    ELSE Finish(W)

(***************************************************************************)
(* middlewares/authMiddleware and index.ts: the dispatcher                 *)
(***************************************************************************)
\* requireAuth in front of the handler whose first segment gives next
requireAuth(W, p, next) ==
  IF ~isAuthenticated(W, p.chat)
    THEN Finish(reply(getSession(W, p.chat), "login_first"))
    ELSE next

\* bot.on(message('text')): the handler of the chat's state
onText(W, p) ==
  LET state == getState(W, p.chat)
      W1 == getSession(W, p.chat)
  IN CASE state = AUTH_EMAIL -> handleEmailInput(W1, p)
       [] state = AUTH_OTP -> handleOtpInput(W1, p)
       [] state = TRANSFER_EMAIL -> handleEmailTransferFlow(W1, p)
       [] state = TRANSFER_WALLET -> handleWalletAddressInput(W1, p)
       [] state = TRANSFER_BANK -> handleBankTransferFlow(W1, p)
       [] OTHER -> handleAmountInput(W1, p)

\* bot.start, bot.command
onCommand(W, p) ==
  LET command == p.upd.data[2]
  IN CASE command = "start" -> handleStart(W, p)
       [] command = "menu" -> handleMenu(W, p)
       [] command = "help" -> handleHelp(W, p)
       [] command = "support" -> handleSupport(W, p)
       [] command = "login" -> handleLogin(W, p)
       [] command = "logout" -> handleLogout(W, p)
       [] command = "profile" -> requireAuth(W, p, handleProfile(W, p))
       [] command = "balance" -> requireAuth(W, p, handleBalance(W, p))
       [] command = "wallets" -> requireAuth(W, p, handleWallets(W, p))
       [] command = "deposit" -> requireAuth(W, p, handleDeposit(W, p))
       [] command = "set_default_wallet" -> requireAuth(W, p, handleSetDefaultWallet(W, p))
       [] command = "send" -> requireAuth(W, p, handleSendCommand(W, p))
       [] command = "transfers" -> requireAuth(W, p, handleTransferHistory(W, p))
       [] OTHER -> onText(W, p)

\* bot.on('callback_query'): the handler of the data's prefix
onCallbackQuery(W, p) ==
  LET callbackData == p.upd.data
  IN CASE StartsWith(callbackData, <<"set_default_wallet", ":">>) ->
            handleSetDefaultWalletCallback(W, p)
       [] StartsWith(callbackData, <<"transfer", ":">>) -> handleTransferTypeCallback(W, p)
       [] StartsWith(callbackData, <<"network", ":">>) -> handleNetworkCallback(W, p)
       [] StartsWith(callbackData, <<"confirm_">>) \/ callbackData = cancel_transfer ->
            handleTransferConfirmation(W, p)
       [] StartsWith(callbackData, <<"menu", ":">>) -> handleMenuCallback(W, p)
       [] StartsWith(callbackData, <<"help", ":">>) -> handleBackToMenu(W, p, "help")
       [] StartsWith(callbackData, <<"support", ":">>) -> handleBackToMenu(W, p, "support")
       [] callbackData = <<"start", ":", "menu">> ->
            Finish(reply(reply(W, "answerCbQuery"), "/menu"))
       [] OTHER -> Finish(W)

\* the handler chain of one update, up to its first await
bot(W, p) ==
  CASE p.upd.type = "command" -> onCommand(W, p)
    [] p.upd.type = "callback" -> onCallbackQuery(W, p)
    [] OTHER -> onText(W, p)

\* refreshUserProfile: an authenticated chat's update starts getUserProfile,
\* which nothing awaits
refreshUserProfile(W, p) ==
  IF isAuthenticated(W, p.chat)
    THEN apiRequest(getSession(W, p.chat), p, "bg_profile", "me", p.chat, Undefined)
    ELSE Finish(getSession(W, p.chat))

\* an await that is no gateway call has completed: the handler's next segment
resume(W, p) ==
  CASE p.pc = "email_delete" -> handleEmailInput_delete(W, p)
    [] p.pc = "otp_delete" -> handleOtpInput_delete(W, p)
    [] p.pc = "profile_loading" -> handleProfile_loading(W, p)
    [] p.pc = "profile_delete" -> handleProfile_delete(W, p)
    [] p.pc = "history_loading" -> handleTransferHistory_loading(W, p)
    [] p.pc = "type_edit" -> handleTransferTypeCallback_edit(W, p)
    [] p.pc = "no_balance_reply" -> afterNoBalance(W, p)
    [] p.pc = "network_edit" -> handleNetworkCallback_edit(W, p)
    [] p.pc = "bank_prompt" -> handleBankTransferFlow_prompt(W, p)
    [] p.pc = "confirm_email_missing" -> confirmEmailTransfer_missing(W, p)
    [] p.pc = "confirm_wallet_missing" -> confirmWalletTransfer_missing(W, p)
    [] p.pc = "confirm_bank_missing" -> confirmBankTransfer_missing(W, p)
    [] p.pc = "then_message" -> handleMessageInput(W, p)
    [] p.pc = "amount_message_prompt" -> handleAmountInput_prompt(W, p)
    [] p.pc = "execute_missing" -> executeTransfer_missing(W, p)
    [] p.pc = "execute_processing" -> executeTransfer_processing(W, p)
    [] p.pc = "execute_result" -> executeTransfer_result(W, p)
    [] p.pc = "cancel_edit" -> handleTransferConfirmation_cancel(W, p)
    [] p.pc = "balance_loading" -> handleBalance_loading(W, p)
    [] p.pc = "balance_delete" -> handleBalance_delete(W, p)
    [] p.pc = "wallets_loading" -> handleWallets_loading(W, p)
    [] p.pc = "wallets_delete" -> handleWallets_delete(W, p)
    [] p.pc = "deposit_loading" -> handleDeposit_loading(W, p)
    [] p.pc = "deposit_delete" -> handleDeposit_delete(W, p)
    [] p.pc = "setdefault_loading" -> handleSetDefaultWallet_loading(W, p)
    [] p.pc = "setdefault_edit" -> handleSetDefaultWalletCallback_edit(W, p)
    [] p.pc = "menu_ack" -> handleMenuCallback_ack(W, p)
    [] OTHER -> handleMenu(W, p)

\* a gateway call has settled with out: the handler's next segment
settled(W, p, out) ==
  CASE p.pc = "email_otp" -> handleEmailInput_otp(W, p, out)
    [] p.pc = "otp_auth" -> handleOtpInput_auth(W, p, out)
    [] p.pc = "otp_profile" -> handleOtpInput_profile(W, p, out)
    [] p.pc = "otp_kyc" -> handleOtpInput_kyc(W, p, out)
    [] p.pc = "profile_me" -> handleProfile_me(W, p, out)
    [] p.pc = "profile_kyc" -> handleProfile_kyc(W, p, out)
    [] p.pc = "history_get" -> handleTransferHistory_get(W, p, out)
    [] p.pc = "emailflow_balances" -> afterBalances(W, p, out)
    [] p.pc = "wallet_balances" -> afterBalances(W, p, out)
    [] p.pc = "bank_balances" -> handleBankTransferFlow_balances(W, p, out)
    [] p.pc = "execute_send" -> executeTransfer_send(W, p, out)
    [] p.pc = "balance_get" -> handleBalance_get(W, p, out)
    [] p.pc = "wallets_get" -> handleWallets_get(W, p, out)
    [] p.pc = "wallets_default" -> handleWallets_default(W, p, out)
    [] p.pc = "deposit_get" -> handleDeposit_get(W, p, out)
    [] p.pc = "setdefault_get" -> handleSetDefaultWallet_get(W, p, out)
    [] p.pc = "setdefault_put" -> handleSetDefaultWalletCallback_put(W, p, out)
    [] OTHER -> Finish(getUserProfile(W, out, p.chat).w)

\* answered with a response interceptor that does not look at _retry
answered_again(W, p, out) ==
  CASE /\ p.gw.st \in {"sent", "retried"}
       /\ OnError(W, [p.gw EXCEPT !.st = "sent"], out) = "refresh" ->
         [w |-> SendRefresh(W, p.gw),
          p |-> [gw |-> [st |-> "refreshing", first |-> out] @@ p.gw] @@ p]
    [] p.gw.st = "refreshing" /\ RefreshVerdict(out) = "retry" ->
         [w |-> OnRefreshed(W, p.gw, out), p |-> [gw |-> [st |-> "retried"] @@ p.gw] @@ p]
    [] p.gw.st = "refreshing" -> settled(OnRefreshed(W, p.gw, out), p, p.gw.first)
    [] OTHER -> settled(W, p, out)

\* the transport has answered the call the process waits for: the response
\* interceptor, then (unless a refresh or a retry leaves) the handler
answered(W, p, out) ==
  CASE p.gw.st = "sent" /\ OnError(W, p.gw, out) = "refresh" ->
         [w |-> SendRefresh(W, p.gw),
          p |-> [gw |-> [st |-> "refreshing", first |-> out] @@ p.gw] @@ p]
    [] p.gw.st = "refreshing" /\ RefreshVerdict(out) = "retry" ->
         [w |-> OnRefreshed(W, p.gw, out), p |-> [gw |-> [st |-> "retried"] @@ p.gw] @@ p]
    [] p.gw.st = "refreshing" -> settled(OnRefreshed(W, p.gw, out), p, p.gw.first)
    [] OTHER -> settled(W, p, out)

(***************************************************************************)
(* The environment: the updates users send and the answers of the payments *)
(* API.                                                                    *)
(***************************************************************************)
\* a command is the text "/" and its name
Command(c) == [type |-> "command", data |-> <<"/", c>>]
Callback(d) == [type |-> "callback", data |-> d]
Text(t) == [type |-> "text", data |-> t]

\* the shortest text handleWalletAddressInput takes for an address
MinAddressLength == 20

EmailText == <<"a", "@", "b", ".", "c">>
OtpText == <<"1", "2", "3", "4">>
AmountText == <<"1", "2", ".", "5">>
AddressText == [i \in 1..MinAddressLength |-> IF i = 1 THEN "0" ELSE IF i = 2 THEN "x" ELSE "f"]
NameText == <<"a", "l">>
SkipText == <<"S", "k", "i", "p">>

\* bodies of the API's answers
AccessOnly == Obj([access |-> Obj([token |-> Word("abc")])])
WithRefresh ==
  Obj([access |-> Obj([token |-> Word("abc"), expires |-> Word("2030-01-01")]),
       refresh |-> Obj([token |-> Word("r1")])])
UserFull == Obj([email |-> Str(EmailText), organizationId |-> Word("org1")])
UserNoOrg == Obj([email |-> Str(EmailText)])
Verified(tokens, user) ==
  Obj([status |-> True,
       data |-> Obj(IF user = Undefined THEN [tokens |-> tokens]
                    ELSE [tokens |-> tokens, user |-> user])])
OtpSent == Obj([email |-> Str(EmailText), sid |-> Word("sid1")])
Profile == Obj([status |-> True, data |-> UserFull])
Kycs == Obj([status |-> True, data |-> List(<<>>)])
Balances ==
  Obj([status |-> True,
       data |-> List(<<Obj([network |-> Word("base"), asset |-> Word("USDC")])>>)])
NoBalances == Obj([status |-> True, data |-> List(<<>>)])
Transferred == Obj([status |-> True, data |-> Obj([id |-> Word("t1")])])
Refreshed == Obj([tokens |-> Obj([access |-> Obj([token |-> Word("abc2")])])])

TransferApis == {"transfers/send", "transfers/wallet-withdraw", "transfers/offramp"}

\* no answer: the step was not the settling of a call
NoAnswer == [t |-> "none"]

(***************************************************************************)
(* The steps of the process.                                               *)
(***************************************************************************)
\* the bag of the processes among ps that are suspended
Started(ps) == SetToBag({q \in ps : q # Idle})

\* the world W and the bag ps become the state; the step is recorded
Commit(W, ps, p, out, done) ==
  /\ sessions' = W.sessions
  /\ userTokens' = W.userTokens
  /\ refreshTokens' = W.refreshTokens
  /\ tokenExpiry' = W.tokenExpiry
  /\ procs' = ps
  /\ fx' = [p |-> p, out |-> out, sent |-> W.sent, replies |-> W.replies, done |-> done]

\* an update of one of chats arrives: the middleware, then the handler up to
\* its first await
Update(chats, updates) ==
  \E c \in chats, u \in updates :
    LET p == [chat |-> c, upd |-> u, pc |-> "update", gw |-> NoCall]
    IN \E bg \in {refreshUserProfile(World, p)} :
         \E r \in {bot(bg.w, p)} :
           \E ps \in {(procs (+) Started({bg.p})) (+) Started({r.p})} :
             /\ BagCardinality(ps) <= MaxInFlight
             /\ Commit(r.w, ps, p, NoAnswer, r.p = Idle)

\* an await of a reply, an edit or a delete completes
Resume ==
  \E p \in BagToSet(procs) :
    /\ p.gw.st = "none"
    /\ \E r \in {resume(World, p)} :
         Commit(r.w, (procs (-) SetToBag({p})) (+) Started({r.p}), p, NoAnswer, r.p = Idle)

\* the endpoint whose answer the call gw waits for
Asked(gw) == IF gw.st = "refreshing" THEN "auth/refresh-token" ELSE gw.api

\* what the transport can give back to the call gw, answers being pairs of an
\* endpoint ("other": every endpoint not named) and a response
AnswersTo(answers, gw) ==
  LET named == {a[1] : a \in answers}
      key == IF Asked(gw) \in named THEN Asked(gw) ELSE "other"
  IN {a[2] : a \in {x \in answers : x[1] = key}}

\* the payments API answers a call in flight
Respond(answers) ==
  \E p \in BagToSet(procs) :
    /\ p.gw.st # "none"
    /\ \E out \in AnswersTo(answers, p.gw) :
         \E r \in {answered(World, p, out)} :
           Commit(r.w, (procs (-) SetToBag({p})) (+) Started({r.p}), p, out, r.p = Idle)

NoStep ==
  [p |-> [chat |-> "", upd |-> Command(""), pc |-> "init", gw |-> NoCall],
   out |-> NoAnswer, sent |-> <<>>, replies |-> <<>>, done |-> FALSE]

\* the process has started: no session, no token, nothing in flight
Init ==
  /\ sessions = <<>>
  /\ userTokens = <<>>
  /\ refreshTokens = <<>>
  /\ tokenExpiry = <<>>
  /\ procs = EmptyBag
  /\ fx = NoStep

(***************************************************************************)
(* The login flow: one chat logs in, logs out and asks for its balance.    *)
(***************************************************************************)
AuthChats == {"A"}

AuthUpdates ==
  {Command("login"), Command("logout"), Text(EmailText), Text(OtpText),
   Callback(<<"menu", ":", "balance">>)}

AuthAnswers ==
  ({"auth/refresh-token"} \X {HttpOk(Refreshed), HttpError(Unauthorized)})
    \cup ({"otp_request"} \X {HttpOk(OtpSent), HttpError(ServerError)})
    \cup ({"otp_authenticate"} \X
            {HttpOk(Verified(AccessOnly, Undefined)), HttpOk(Verified(AccessOnly, UserNoOrg)),
             HttpOk(Verified(WithRefresh, UserFull)), HttpError(Unauthorized)})
    \cup ({"me"} \X {HttpOk(Profile), HttpError(Unauthorized)})
    \cup ({"kycs"} \X {HttpOk(Kycs)})
    \cup ({"other"} \X {HttpOk(Balances)})

NextAuth == Update(AuthChats, AuthUpdates) \/ Resume \/ Respond(AuthAnswers)

SpecAuth == Init /\ [][NextAuth]_vars

(***************************************************************************)
(* The transfer flows.  The dispatcher routes a button to its handler      *)
(* whether or not the chat has logged in, so the three modes are driven    *)
(* from the start of the process, two handlers at a time.                  *)
(***************************************************************************)
TransferChats == {"A"}

\* a text that every text handler takes: an e-mail address of
\* MinAddressLength characters that starts with a number
AnyText ==
  [i \in 1..MinAddressLength |->
     CASE i = 1 -> "1" [] i = 2 -> "@" [] i = 3 -> "2" [] i = 4 -> "." [] OTHER -> "c"]

TransferUpdates ==
  {Command("start"), Text(AnyText),
   Callback(<<"transfer", ":", "email">>), Callback(<<"transfer", ":", "wallet">>),
   Callback(<<"transfer", ":", "bank">>), Callback(<<"network", ":", "base">>),
   Callback(confirm_email_transfer), Callback(confirm_wallet_transfer),
   Callback(confirm_bank_transfer), Callback(cancel_transfer)}

TransferAnswers ==
  ({"me"} \X {HttpOk(Profile)})
    \cup ({"balances"} \X {HttpOk(Balances)})
    \cup ({"other"} \X {HttpOk(Transferred), HttpError(ServerError)})

NextTransfer == Update(TransferChats, TransferUpdates) \/ Resume \/ Respond(TransferAnswers)

SpecTransfer == Init /\ [][NextTransfer]_vars

\* the session and the tokens a login leaves (handleOtpInput answered with
\* Verified(WithRefresh, UserFull))
LoggedIn(chats) ==
  /\ sessions =
       [c \in chats |->
          [email |-> Str(EmailText), organizationId |-> Word("org1"),
           authenticated |-> True, currentState |-> MAIN_MENU,
           tempData |-> ("email" :> Str(EmailText)) @@ ("sid" :> Word("sid1")),
           userId |-> c]]
  /\ userTokens = [c \in chats |-> Word("abc")]
  /\ refreshTokens = [c \in chats |-> Word("r1")]
  /\ tokenExpiry = [c \in chats |-> DateGetTime(Word("2030-01-01"))]
  /\ procs = EmptyBag
  /\ fx = NoStep

InitTransfer == LoggedIn(TransferChats)

\* the answers of the API to a chat whose token is good
GoodAnswers == TransferAnswers

(***************************************************************************)
(* One mode at a time, in a chat that has logged in, with the texts a user *)
(* of that mode sends.                                                     *)
(***************************************************************************)
EmailUpdates ==
  {Command("send"), Callback(<<"transfer", ":", "email">>), Text(EmailText),
   Callback(<<"network", ":", "base">>), Text(AmountText), Text(SkipText),
   Callback(confirm_email_transfer)}

NextEmail == Update(TransferChats, EmailUpdates) \/ Resume \/ Respond(GoodAnswers)

SpecEmail == InitTransfer /\ [][NextEmail]_vars

WalletUpdates ==
  {Command("send"), Callback(<<"transfer", ":", "wallet">>), Text(AddressText),
   Callback(<<"network", ":", "base">>), Text(AmountText),
   Callback(confirm_wallet_transfer)}

NextWallet == Update(TransferChats, WalletUpdates) \/ Resume \/ Respond(GoodAnswers)

SpecWallet == InitTransfer /\ [][NextWallet]_vars

BankUpdates ==
  {Command("send"), Callback(<<"transfer", ":", "bank">>), Text(NameText),
   Text(AmountText), Callback(confirm_bank_transfer)}

NextBank == Update(TransferChats, BankUpdates) \/ Resume \/ Respond(GoodAnswers)

SpecBank == InitTransfer /\ [][NextBank]_vars

(***************************************************************************)
(* The amount step: a chat that has logged in fills the four bank fields   *)
(* and sends, where the amount is asked for, a positive and a negative     *)
(* amount.                                                                 *)
(***************************************************************************)
NegativeText == <<"-", "5">>

AmountUpdates ==
  {Command("send"), Callback(<<"transfer", ":", "bank">>), Text(NameText),
   Text(AmountText), Text(NegativeText)}

NextAmount == Update(TransferChats, AmountUpdates) \/ Resume \/ Respond(GoodAnswers)

SpecAmount == InitTransfer /\ [][NextAmount]_vars

(***************************************************************************)
(* Abandoned flows: a chat that has logged in starts the bank mode, fills  *)
(* fields, cancels with either cancel button and starts again.             *)
(***************************************************************************)
CancelUpdates ==
  {Command("send"), Callback(<<"transfer", ":", "bank">>), Text(NameText),
   Callback(<<"transfer", ":", "cancel">>), Callback(cancel_transfer)}

NextCancel == Update(TransferChats, CancelUpdates) \/ Resume \/ Respond(GoodAnswers)

SpecCancel == InitTransfer /\ [][NextCancel]_vars

(***************************************************************************)
(* The confirmation of an email transfer: a chat that has logged in gives  *)
(* network, amount and recipient, then confirms or cancels.                *)
(***************************************************************************)
ConfirmUpdates ==
  {Callback(<<"network", ":", "base">>), Text(AmountText),
   Callback(<<"transfer", ":", "email">>), Text(EmailText),
   Callback(confirm_email_transfer), Callback(cancel_transfer)}

NextConfirm == Update(TransferChats, ConfirmUpdates) \/ Resume \/ Respond(GoodAnswers)

SpecConfirm == InitTransfer /\ [][NextConfirm]_vars

(***************************************************************************)
(* The gateway: a chat that has logged in, with or without a refresh       *)
(* token, asks for its balance while its access token may have expired.    *)
(***************************************************************************)
\* the session and the token a login leaves when the verify response
\* carries neither refresh token nor expiry (Verified(AccessOnly, UserFull))
LoggedInAccessOnly(chats) ==
  /\ sessions =
       [c \in chats |->
          [email |-> Str(EmailText), organizationId |-> Word("org1"),
           authenticated |-> True, currentState |-> MAIN_MENU,
           tempData |-> ("email" :> Str(EmailText)) @@ ("sid" :> Word("sid1")),
           userId |-> c]]
  /\ userTokens = [c \in chats |-> Word("abc")]
  /\ refreshTokens = <<>>
  /\ tokenExpiry = <<>>
  /\ procs = EmptyBag
  /\ fx = NoStep

GatewayChats == {"A"}

InitGateway == LoggedIn(GatewayChats) \/ LoggedInAccessOnly(GatewayChats)

GatewayUpdates == {Command("balance")}

\* a 200 reply of the refresh endpoint that carries no tokens
Unusable == Obj([message |-> Word("ok")])

GatewayAnswers ==
  ({"auth/refresh-token"} \X
     {HttpOk(Refreshed), HttpOk(Unusable), HttpError(Unauthorized), NetworkError})
    \cup ({"me"} \X {HttpOk(Profile), HttpError(Unauthorized)})
    \cup ({"other"} \X {HttpOk(Balances), HttpError(Unauthorized)})

NextGateway == Update(GatewayChats, GatewayUpdates) \/ Resume \/ Respond(GatewayAnswers)

SpecGateway == InitGateway /\ [][NextGateway]_vars

(***************************************************************************)
(* Inputs that fail validation: a chat logs in and opens the wallet mode,  *)
(* sending an e-mail address and a code in every state.                    *)
(***************************************************************************)
ValidationUpdates ==
  {Command("login"), Text(EmailText), Text(OtpText), Callback(<<"transfer", ":", "wallet">>)}

NextValidation == Update(AuthChats, ValidationUpdates) \/ Resume \/ Respond(AuthAnswers)

SpecValidation == Init /\ [][NextValidation]_vars

(***************************************************************************)
(* Failures: a chat that has logged in asks for its profile and its        *)
(* balance while the API may fail, sends a text nothing has asked for and   *)
(* confirms a transfer it has not filled in.                               *)
(***************************************************************************)
FailureUpdates ==
  {Command("profile"), Command("balance"), Text(NegativeText),
   Callback(confirm_email_transfer)}

FailureAnswers ==
  ({"me"} \X {HttpOk(Profile), HttpError(ServerError)})
    \cup ({"kycs"} \X {HttpOk(Kycs), HttpError(ServerError)})
    \cup ({"other"} \X {HttpOk(Balances), HttpError(ServerError)})

NextFailure == Update(TransferChats, FailureUpdates) \/ Resume \/ Respond(FailureAnswers)

SpecFailure == InitTransfer /\ [][NextFailure]_vars

(***************************************************************************)
(* The services: a chat logs in and asks for its profile, its balance and  *)
(* its transfers, while the API answers each call with an enveloped body,  *)
(* with a bare body, with an error status, or not at all.                  *)
(***************************************************************************)
\* the envelope of models/types ApiResponse around data
Enveloped(data) == Obj([status |-> True, message |-> Word("ok"), data |-> data])

ServiceUpdates ==
  {Command("login"), Text(EmailText), Text(OtpText), Command("profile"), Command("balance")}

ServiceAnswers ==
  ({"otp_request"} \X {HttpOk(Enveloped(OtpSent)), HttpError(ServerError), NetworkError})
    \cup ({"otp_authenticate"} \X
            {HttpOk(Enveloped(Obj([tokens |-> AccessOnly, user |-> UserFull]))),
             HttpError(Unauthorized), NetworkError})
    \cup ({"me"} \X {HttpOk(Enveloped(UserFull)), HttpOk(UserFull),
                     HttpError(Unauthorized), NetworkError})
    \cup ({"other"} \X {HttpOk(Enveloped(List(<<>>))), HttpError(ServerError), NetworkError})

NextService == Update(AuthChats, ServiceUpdates) \/ Resume \/ Respond(ServiceAnswers)

SpecService == Init /\ [][NextService]_vars

(***************************************************************************)
(* The verification of a code: a chat logs in while the API answers the    *)
(* authenticate call with tokens, with an explicit failure, or with a body *)
(* that says neither.                                                      *)
(***************************************************************************)
VerifyUpdates == {Command("login"), Text(EmailText), Text(OtpText)}

\* a verify response that says the code is wrong
Refused == Obj([status |-> False, message |-> Word("invalid_code")])

VerifyAnswers ==
  ({"otp_request"} \X {HttpOk(OtpSent)})
    \cup ({"otp_authenticate"} \X
            {HttpOk(Verified(WithRefresh, UserFull)), HttpOk(Refused), HttpOk(OtpSent)})
    \cup ({"me"} \X {HttpOk(Profile)})
    \cup ({"other"} \X {HttpOk(Kycs)})

NextVerify == Update(AuthChats, VerifyUpdates) \/ Resume \/ Respond(VerifyAnswers)

SpecVerify == Init /\ [][NextVerify]_vars

(***************************************************************************)
(* The session store: two chats, unknown to the process at its start, ask  *)
(* for the menu, start a login and log out.                                *)
(***************************************************************************)
SessionUpdates ==
  {Command("menu"), Command("login"), Command("logout"), Text(EmailText)}

NextSession == Update(Chats, SessionUpdates) \/ Resume \/ Respond(AuthAnswers)

SpecSession == Init /\ [][NextSession]_vars

(***************************************************************************)
(* The shapes of an OTP-verify answer: a chat logs in, and the API answers *)
(* the verification with a body that has tokens in one, two or three of    *)
(* the places a client may look in.                                        *)
(***************************************************************************)
\* a tokens object whose access token is the word t
Tokens(t) == Obj([access |-> Obj([token |-> Word(t)])])

\* the parts of a body: data.tokens with status, top-level tokens, a bare token
CanonicalPart == [status |-> True, data |-> Obj([tokens |-> Tokens("canonical"), user |-> UserFull])]
FlattenedPart == [tokens |-> Tokens("flattened"), user |-> UserFull]
BarePart == [token |-> Word("bare")]
BareAccessPart == [accessToken |-> Word("bare")]

ShapeBodies ==
  {Obj(CanonicalPart), Obj(FlattenedPart), Obj(BarePart),
   Obj(CanonicalPart @@ FlattenedPart), Obj(CanonicalPart @@ BarePart),
   Obj(FlattenedPart @@ BarePart), Obj(FlattenedPart @@ BareAccessPart),
   Obj(CanonicalPart @@ FlattenedPart @@ BarePart)}

ShapeAnswers ==
  ({"otp_request"} \X {HttpOk(OtpSent)})
    \cup ({"otp_authenticate"} \X {HttpOk(b) : b \in ShapeBodies})
    \cup ({"me"} \X {HttpOk(Profile)})
    \cup ({"other"} \X {HttpOk(Kycs)})

NextShapes == Update(AuthChats, VerifyUpdates) \/ Resume \/ Respond(ShapeAnswers)

SpecShapes == Init /\ [][NextShapes]_vars

(***************************************************************************)
(* Buttons of the transfer flow pressed during a login: a chat starts a    *)
(* login, sends its address, and presses buttons of an older message.      *)
(***************************************************************************)
\* callback data of the transfer flow's buttons
TransferButtons ==
  {<<"transfer", ":", "email">>, <<"network", ":", "base">>, confirm_email_transfer,
   cancel_transfer}

MisroutedUpdates ==
  {Command("login"), Text(EmailText)} \cup {Callback(d) : d \in TransferButtons}

NextMisrouted == Update(AuthChats, MisroutedUpdates) \/ Resume \/ Respond(AuthAnswers)

SpecMisrouted == Init /\ [][NextMisrouted]_vars

(***************************************************************************)
(* A chat that never logs in presses the buttons of the e-mail transfer    *)
(* and sends texts; the API refuses every request that carries no token.   *)
(***************************************************************************)
AnonymousUpdates ==
  {Text(AnyText), Callback(<<"transfer", ":", "email">>), Callback(<<"network", ":", "base">>),
   Callback(confirm_email_transfer)}

AnonymousAnswers == {"other"} \X {HttpError(Unauthorized)}

NextAnonymous == Update(TransferChats, AnonymousUpdates) \/ Resume \/ Respond(AnonymousAnswers)

SpecAnonymous == Init /\ [][NextAnonymous]_vars

(***************************************************************************)
(* A refused OTP verification: the API answers with a false status, alone  *)
(* or with tokens in one of the places a client may look in.               *)
(***************************************************************************)
RefusedBodies ==
  {Refused,
   Obj([status |-> False, data |-> CanonicalPart.data]),
   Obj([status |-> False] @@ FlattenedPart),
   Obj([status |-> False] @@ BarePart)}

RefusedAnswers ==
  ({"otp_request"} \X {HttpOk(OtpSent)})
    \cup ({"otp_authenticate"} \X {HttpOk(b) : b \in RefusedBodies})
    \cup ({"me"} \X {HttpOk(Profile)})
    \cup ({"other"} \X {HttpOk(Kycs)})

NextRefused == Update(AuthChats, VerifyUpdates) \/ Resume \/ Respond(RefusedAnswers)

SpecRefused == Init /\ [][NextRefused]_vars

(***************************************************************************)
(* Two chats side by side: both have logged in; they ask for their balance *)
(* and log out while the API may refuse their tokens and refresh them.     *)
(***************************************************************************)
InitIsolation == LoggedIn(Chats)

IsolationUpdates == {Command("balance"), Command("logout")}

IsolationAnswers ==
  ({"auth/refresh-token"} \X {HttpOk(Refreshed), HttpError(Unauthorized)})
    \cup ({"me"} \X {HttpOk(Profile), HttpError(Unauthorized)})
    \cup ({"other"} \X {HttpOk(Balances), HttpError(Unauthorized)})

NextIsolation == Update(Chats, IsolationUpdates) \/ Resume \/ Respond(IsolationAnswers)

SpecIsolation == InitIsolation /\ [][NextIsolation]_vars

(***************************************************************************)
(* The token registry: a chat that has logged in asks for its balance and  *)
(* its profile while its token may be refused and the refresh may give new *)
(* tokens, an access token alone, or fail.                                 *)
(***************************************************************************)
\* the refresh endpoint's reply with a new refresh token
RefreshedBoth ==
  Obj([tokens |-> Obj([access |-> Obj([token |-> Word("abc2"), expires |-> Word("2031-01-01")]),
                       refresh |-> Obj([token |-> Word("r2")])])])

RegistryUpdates == {Command("balance"), Command("profile")}

RegistryAnswers ==
  ({"auth/refresh-token"} \X
     {HttpOk(Refreshed), HttpOk(RefreshedBoth), HttpError(Unauthorized), NetworkError})
    \cup ({"me"} \X {HttpOk(Profile), HttpError(Unauthorized)})
    \cup ({"other"} \X {HttpOk(Balances), HttpError(Unauthorized)})

NextRegistry == Update(GatewayChats, RegistryUpdates) \/ Resume \/ Respond(RegistryAnswers)

SpecRegistry == InitGateway /\ [][NextRegistry]_vars

(***************************************************************************)
(* The session store's mutators, called one at a time with arguments from  *)
(* small sets on the records of two chats.                                 *)
(***************************************************************************)
\* Partial<UserSession> values given to setSession
SessionData ==
  {[currentState |-> MAIN_MENU],
   [email |-> Str(EmailText), organizationId |-> Word("org1"), currentState |-> MAIN_MENU],
   [email |-> Str(EmailText)],
   [tempData |-> [amount |-> Word("5")]]}

ManagerStates == {AUTH_EMAIL, TRANSFER_EMAIL}
ManagerKeys == {"amount", "email"}
ManagerValues == {Word("5"), Str(EmailText)}

\* the call of a mutator as a step: the call and its arguments are recorded
Call(W, name, chatId, args) ==
  Commit(W, procs, [chat |-> chatId, pc |-> name, args |-> args, gw |-> NoCall], NoAnswer, TRUE)

SetSession ==
  \E c \in Chats, d \in SessionData : Call(setSession(World, c, d), "setSession", c, d)

UpdateState ==
  \E c \in Chats, s \in ManagerStates :
    Call(updateState(World, c, s), "updateState", c, [state |-> s])

SetTempData ==
  \E c \in Chats, k \in ManagerKeys, v \in ManagerValues :
    Call(setTempData(World, c, k, v), "setTempData", c, [key |-> k, value |-> v])

ClearTempData ==
  \E c \in Chats : Call(clearTempData(World, c), "clearTempData", c, <<>>)

NextManager == SetSession \/ UpdateState \/ SetTempData \/ ClearTempData

SpecManager == Init /\ [][NextManager]_vars

(***************************************************************************)
(* The login flow: properties.  fx is the step that led to the state: the  *)
(* process that ran (fx.p, as it was before the step: the update for a     *)
(* handler's first segment), what it sent, what it replied, whether the    *)
(* handler returned.                                                       *)
(***************************************************************************)
\* the number of calls of api among the requests sent
Calls(sent, api) == Cardinality({i \in DOMAIN sent : sent[i].api = api})

\* the step ran the first segment of the handler of a text
TextStep(step) == step.p.pc = "update" /\ step.p.upd.type = "text"

\* the step ended handleOtpInput after authenticateWithOtp had answered
OtpHandled(step) == step.done /\ step.p.pc \in {"otp_delete", "otp_kyc"}

\* the world a step leaves
After == World'

C1_Step ==
  LET p == fx'.p
      c == p.chat
  IN /\ (p.pc = "update" /\ p.upd = Command("login")) => getState(After, c) = AUTH_EMAIL
     /\ (/\ TextStep(fx')
         /\ getState(World, c) = AUTH_EMAIL
         /\ emailRegex(Trim(p.upd.data))) => Calls(fx'.sent, "otp_request") = 1
     /\ (p.pc = "email_delete" /\ Truthy(Get(p.response, "status")))
          => getState(After, c) = AUTH_OTP
     /\ (/\ TextStep(fx')
         /\ getState(World, c) = AUTH_OTP
         /\ Truthy(getTempData(World, c, "email"))
         /\ otpRegex(Trim(p.upd.data))) => Calls(fx'.sent, "otp_authenticate") = 1
     /\ (/\ OtpHandled(fx')
         /\ Get(p.authResponse, "data") = Get(Verified(AccessOnly, Undefined), "data"))
          => (/\ isAuthenticated(After, c)
              /\ getTokenForUser(After, c) = Word("abc")
              /\ getState(After, c) = MAIN_MENU)

\* C1: /login puts the chat in AUTH_EMAIL; a valid e-mail text in AUTH_EMAIL
\* issues one OTP request and, when it succeeds, the state becomes AUTH_OTP;
\* a 4-8 digit text in AUTH_OTP issues one authenticate call; when that call
\* answers {status: true, data: {tokens: {access: {token: "abc"}}}} the handler
\* leaves the chat authenticated, with token "abc", in MAIN_MENU.
C1_LoginSequence == [][C1_Step]_vars

\* C2: whenever handleOtpInput has finished on a successful verify response
\* that carries data.tokens.access.token, the chat is authenticated and its
\* token is not null.
C2_VerifiedIsAuthenticated ==
  (/\ OtpHandled(fx)
   /\ Truthy(Get(fx.p.authResponse, "status"))
   /\ Truthy(Path(fx.p.authResponse, <<"data", "tokens", "access", "token">>)))
    => (/\ isAuthenticated(World, fx.p.chat)
        /\ Truthy(getTokenForUser(World, fx.p.chat)))

\* C3: when the logout command has been handled the chat is in START, its
\* scratch map is empty and its token record (access token, refresh token,
\* expiry) is gone.
C3_LogoutDeletesTokens ==
  (fx.p.pc = "update" /\ fx.p.upd = Command("logout"))
    => (/\ getState(World, fx.p.chat) = START
        /\ Session(World, fx.p.chat).tempData = <<>>
        /\ getTokenForUser(World, fx.p.chat) = Null
        /\ fx.p.chat \notin DOMAIN refreshTokens
        /\ fx.p.chat \notin DOMAIN tokenExpiry)

(***************************************************************************)
(* The transfer flows: properties.                                         *)
(***************************************************************************)
\* the confirm button of the mode a transfer call belongs to
ConfirmButton(api) ==
  CASE api = "transfers/send" -> Callback(confirm_email_transfer)
    [] api = "transfers/wallet-withdraw" -> Callback(confirm_wallet_transfer)
    [] OTHER -> Callback(confirm_bank_transfer)

ConfirmButtons == {ConfirmButton(api) : api \in TransferApis}

\* the transfer call of a confirm button
ApiOf(button) == CHOOSE api \in TransferApis : ConfirmButton(api) = button

\* the fields a mode requires: the payload field and the scratch key it is read from
Required(api) ==
  CASE api = "transfers/send" ->
         {<<"email", "transferEmail">>, <<"network", "transferNetwork">>,
          <<"amount", "transferAmount">>}
    [] api = "transfers/wallet-withdraw" ->
         {<<"address", "transferWalletAddress">>, <<"network", "transferNetwork">>,
          <<"amount", "transferAmount">>}
    [] OTHER ->
         {<<"name", "bankName">>, <<"accountNumber", "bankAccountNumber">>,
          <<"routingNumber", "bankRoutingNumber">>, <<"bankName", "bankInstitutionName">>,
          <<"amount", "transferAmount">>}

\* every scratch key the mode requires is present and non-empty
Populated(W, c, api) == \A f \in Required(api) : Truthy(getTempData(W, c, f[2]))

\* the transfer calls among the requests a step sent
Submissions(step) == {i \in DOMAIN step.sent : step.sent[i].api \in TransferApis}

\* C4: every transfer call is sent by the handler of a confirm button of the
\* call's chat and mode: the step that sends it runs that handler, and every
\* transfer call in flight is awaited by that handler.
C4_SubmitOnlyOnConfirm ==
  /\ \A i \in Submissions(fx) :
       /\ fx.p.upd = ConfirmButton(fx.sent[i].api)
       /\ fx.p.chat = fx.sent[i].userId
  /\ \A q \in BagToSet(procs) :
       (q.gw.st # "none" /\ q.gw.api \in TransferApis)
         => (q.upd = ConfirmButton(q.gw.api) /\ q.chat = q.gw.userId)

C4_Witness ==
  \E i \in Submissions(fx) : fx.sent[i].api = "transfers/wallet-withdraw"

\* the handlers of the update of a step that the step has left at pc
Begun(step, pc) ==
  {q \in BagToSet(procs') :
     /\ q.chat = step.p.chat /\ q.upd = step.p.upd /\ q.pc = pc
     /\ CopiesIn(q, procs') > CopiesIn(q, procs)}

C5_Step ==
  LET p == fx'.p
      c == p.chat
  IN /\ (p.pc = "update" /\ p.upd \in ConfirmButtons) =>
          IF Populated(World, c, ApiOf(p.upd))
            THEN \E q \in Begun(fx', "execute_processing") :
                   /\ q.api = ApiOf(p.upd)
                   /\ \A f \in Required(q.api) :
                        Get(q.transferData, f[1]) = getTempData(World, c, f[2])
            ELSE Begun(fx', "execute_processing") = {} /\ fx'.sent = <<>>
     /\ p.pc = "execute_missing" => fx'.sent = <<>>
     /\ \A i \in Submissions(fx') :
          /\ p.pc = "execute_processing"
          /\ fx'.sent[i].api = p.api
          /\ fx'.sent[i].body = p.transferData
          /\ \A f \in Required(p.api) : Truthy(Get(p.transferData, f[1]))

\* C5: a confirm starts a submission exactly when every scratch key its mode
\* requires is present and non-empty at that moment, with those values as the
\* payload; with one of them missing the confirm handler sends nothing; and
\* every transfer call sent is the payload of such a confirm, each required
\* field non-empty.
C5_SubmitOnlyPopulated == [][C5_Step]_vars

C5_Witness ==
  \E i \in Submissions(fx) :
    /\ fx.sent[i].api = "transfers/offramp"
    /\ Truthy(Get(fx.sent[i].body, "amount"))

\* the confirm handlers of chat c whose transfer call has been sent
Submitted(c) ==
  {q \in BagToSet(procs) : q.chat = c /\ q.pc \in {"execute_send", "execute_result"}}

\* C6: one populated flow gives one transfer request: no two confirm
\* handlers of a chat have sent the same payload before either of them has
\* reset the flow.
C6_OneRequestPerFlow ==
  \A c \in Chats : \A q \in Submitted(c) :
    /\ CopiesIn(q, procs) = 1
    /\ \A r \in Submitted(c) : r.transferData = q.transferData => r = q

\* C7: when the handler of a confirmed transfer returns after its gateway
\* call has answered, success or failure, the chat is in MAIN_MENU and its
\* scratch map is empty.
C7_ResetAfterSubmit ==
  fx.p.pc = "execute_result"
    => (/\ fx.done
        /\ getState(World, fx.p.chat) = MAIN_MENU
        /\ Session(World, fx.p.chat).tempData = <<>>)

C7_Witness ==
  /\ fx.p.pc = "execute_result"
  /\ fx.p.api = "transfers/send"
  /\ ~Truthy(Get(fx.p.response, "status"))

\* the amount a text stands for
AmountOf(upd) == parseFloat(Trim(upd.data))

\* the step handles a text that is a valid positive amount, sent while the
\* chat is in state, has chosen a network and is asked for the amount
AmountStep(step, state) ==
  /\ TextStep(step)
  /\ getState(World, step.p.chat) = state
  /\ Truthy(getTempData(World, step.p.chat, "transferNetwork"))
  /\ Truthy(getTempData(World, step.p.chat, "awaitingAmount"))
  /\ AmountOf(step.p.upd).k = "number"
  /\ AmountOf(step.p.upd).n > 0

C8_Step ==
  (AmountStep(fx', TRANSFER_EMAIL) /\ Truthy(getTempData(World, fx'.p.chat, "transferEmail")))
    => (/\ getTempData(After, fx'.p.chat, "transferAmount") = AmountOf(fx'.p.upd)
        /\ fx'.replies = <<"optional_message">>)

\* C8: in email mode, after the e-mail address and the network, a valid
\* positive amount text is taken as the amount and the chat is asked for the
\* optional message (the step of the order e-mail, network, amount, message,
\* confirmation).
C8_EmailOrder == [][C8_Step]_vars

C9_Step ==
  (/\ AmountStep(fx', TRANSFER_WALLET)
   /\ Truthy(getTempData(World, fx'.p.chat, "transferWalletAddress")))
    => (/\ getTempData(After, fx'.p.chat, "transferAmount") = AmountOf(fx'.p.upd)
        /\ fx'.replies = <<"confirm_wallet_transfer">>)

\* C9: in wallet mode, after the address and the network, a valid positive
\* amount text is taken as the amount and the confirmation is shown (the step
\* of the order address, network, amount, confirmation).
C9_WalletOrder == [][C9_Step]_vars

\* the scratch keys of bank mode, in the order of the inputs
BankKeys == <<"bankName", "bankAccountNumber", "bankRoutingNumber", "bankInstitutionName">>

\* the bank fields of chat c that are filled
Filled(W, c) == {j \in DOMAIN BankKeys : Truthy(getTempData(W, c, BankKeys[j]))}

C10_Step ==
  LET p == fx'.p
      c == p.chat
      text == Str(Trim(p.upd.data))
      filled == Filled(World, c)
      kept == \A j \in filled : getTempData(After, c, BankKeys[j]) = getTempData(World, c, BankKeys[j])
  IN (TextStep(fx') /\ getState(World, c) = TRANSFER_BANK /\ Truthy(text)) =>
       IF filled # DOMAIN BankKeys
         THEN LET next == CHOOSE j \in DOMAIN BankKeys \ filled :
                            \A i \in DOMAIN BankKeys \ filled : j <= i
              IN /\ filled = 1..(next - 1)
                 /\ kept
                 /\ getTempData(After, c, BankKeys[next]) = text
                 /\ Filled(After, c) = 1..next
         ELSE (/\ Truthy(getTempData(World, c, "awaitingAmount"))
               /\ AmountOf(p.upd).k = "number"
               /\ AmountOf(p.upd).n > 0)
                => (/\ kept
                    /\ getTempData(After, c, "transferAmount") = AmountOf(p.upd)
                    /\ fx'.replies = <<"confirm_bank_transfer">>)

\* C10: in bank mode successive texts fill name, account number, routing
\* number and bank name in that order, one field per text, no filled field
\* overwritten; the text after the fourth field is taken as the amount and
\* the confirmation is shown.
C10_BankOrder == [][C10_Step]_vars

(***************************************************************************)
(* The amount step: properties.                                            *)
(***************************************************************************)
\* the step handles a text sent while its chat is at the amount step of a
\* transfer mode: the amount has been asked for, after the network in email
\* and wallet mode, after the four fields in bank mode
AtAmountStep(step) ==
  LET c == step.p.chat
      state == getState(World, c)
  IN /\ TextStep(step)
     /\ Truthy(getTempData(World, c, "awaitingAmount"))
     /\ \/ /\ state = TRANSFER_EMAIL
           /\ Truthy(getTempData(World, c, "transferEmail"))
           /\ Truthy(getTempData(World, c, "transferNetwork"))
        \/ /\ state = TRANSFER_WALLET
           /\ Truthy(getTempData(World, c, "transferWalletAddress"))
           /\ Truthy(getTempData(World, c, "transferNetwork"))
        \/ /\ state = TRANSFER_BANK
           /\ Filled(World, c) = DOMAIN BankKeys

\* the text of the step parses as a positive number
PositiveAmount(step) == AmountOf(step.p.upd).k = "number" /\ AmountOf(step.p.upd).n > 0

\* the requests of a step other than the profile refresh of the middleware
HandlerCalls(step) == {i \in DOMAIN step.sent : step.sent[i].api # "me"}

C11_Step ==
  (AtAmountStep(fx') /\ PositiveAmount(fx'))
    => (/\ getTempData(After, fx'.p.chat, "transferAmount") = AmountOf(fx'.p.upd)
        /\ ~Truthy(getTempData(After, fx'.p.chat, "awaitingAmount")))

\* C11: at the amount step of a transfer mode a text that parses as a
\* positive number is stored in scratch as that number and the amount is no
\* longer asked for.
C11_AmountAccepted == [][C11_Step]_vars

C12_Step ==
  (AtAmountStep(fx') /\ ~PositiveAmount(fx'))
    => (/\ fx'.replies # <<>>
        /\ Session(After, fx'.p.chat).tempData = Session(World, fx'.p.chat).tempData
        /\ getState(After, fx'.p.chat) = getState(World, fx'.p.chat)
        /\ HandlerCalls(fx') = {})

\* C12: at the amount step of a transfer mode a text that is no positive
\* number is answered with a reply, writes no scratch key, leaves the state
\* as it is and sends no request (the profile refresh of the middleware
\* aside).
C12_AmountRejected == [][C12_Step]_vars

(***************************************************************************)
(* The optional message of an email transfer.                              *)
(***************************************************************************)
\* the text of the step is "skip" in some letter case
SkipStep(step) == TextStep(step) /\ toLowerCase(Trim(step.p.upd.data)) = <<"s", "k", "i", "p">>

\* the chat is in email mode with recipient, network and amount stored
AtMessageStep(W, c) ==
  /\ getState(W, c) = TRANSFER_EMAIL
  /\ Truthy(getTempData(W, c, "transferEmail"))
  /\ Truthy(getTempData(W, c, "transferNetwork"))
  /\ Truthy(getTempData(W, c, "transferAmount"))

C13_Step ==
  (SkipStep(fx') /\ AtMessageStep(World, fx'.p.chat))
    => (/\ getTempData(After, fx'.p.chat, "transferMessage") = Str(<<>>)
        /\ fx'.replies = <<"confirm_email_transfer">>)

CancelHandled(step) ==
  \/ step.p.pc = "cancel_edit"
  \/ step.p.pc = "type_edit" /\ step.p.transferType = <<"cancel">>

C14_Step ==
  CancelHandled(fx') =>
    (/\ fx'.done
     /\ getState(After, fx'.p.chat) = MAIN_MENU
     /\ \A key \in DOMAIN Session(World, fx'.p.chat).tempData :
          getTempData(After, fx'.p.chat, key) = Undefined)

\* C14: when the handler of a cancel button has run, in whatever state it
\* was pressed, the chat is in MAIN_MENU and getTempData returns nothing for
\* every key the scratch map held, the three stored bank fields included.
C14_CancelDiscards == [][C14_Step]_vars

\* the cancel button has been pressed in bank mode with three of the four
\* fields stored, and its handler is about to discard them
C14_Witness ==
  \E q \in BagToSet(procs) :
    /\ q.pc = "type_edit" /\ q.transferType = <<"cancel">>
    /\ getState(World, q.chat) = TRANSFER_BANK
    /\ Filled(World, q.chat) = 1..3

C15_Step ==
  (/\ fx'.p.upd = Callback(cancel_transfer)
   /\ \E api \in TransferApis : Populated(World, fx'.p.chat, api))
    => fx'.sent = <<>>

\* C15: while the cancel button of a confirmation (the scratch keys of a
\* mode all stored) is handled, from the arrival of the event to the end of
\* its handler, no request is sent to the payments API.
C15_CancelSendsNothing == [][C15_Step]_vars

\* the scratch keys of the transfer flows
TransferKeys ==
  {"transferEmail", "transferWalletAddress", "transferNetwork", "transferAmount",
   "transferMessage", "awaitingAmount", "awaitingMessage", "availableNetworks",
   "bankName", "bankAccountNumber", "bankRoutingNumber", "bankInstitutionName"}

\* the step has started a transfer flow: /send has shown the transfer
\* options, or a mode button has put the chat in its mode
FlowStarted(step) ==
  \/ /\ step.p.pc = "update" /\ step.p.upd = Command("send")
     /\ step.replies = <<"transfer_options">>
  \/ /\ step.p.pc = "type_edit"
     /\ step.p.transferType \in {<<"email">>, <<"wallet">>, <<"bank">>}

\* C16: when a transfer flow has been started (by /send or by a mode
\* button) the scratch map holds no key of a transfer flow: nothing an
\* earlier flow wrote is left for the new one to read.
C16_FlowStartsEmpty ==
  FlowStarted(fx) => \A key \in TransferKeys : getTempData(World, fx.p.chat, key) = Undefined

(***************************************************************************)
(* The gateway: properties.  A step that settles a call has fx.p.gw as the *)
(* call was before the answer fx.out: "sent" (first send), "refreshing"    *)
(* (the refresh call is out, gw.first is the 401), "retried".              *)
(***************************************************************************)
\* the access token a refresh reply carries
NewToken(out) == Path(out.data, <<"tokens", "access", "token">>)

\* the refresh call of the step's request has answered with a usable token
RefreshSucceeded(step) ==
  step.p.gw.st = "refreshing" /\ step.out.t = "ok" /\ Truthy(NewToken(step.out))

\* the refresh call of the step's request has failed: an error status, a
\* network error, or a reply without a usable access token
RefreshFailed(step) ==
  step.p.gw.st = "refreshing" /\ ~(step.out.t = "ok" /\ Truthy(NewToken(step.out)))

\* the token record of a chat is gone
Cleared(W, userId) ==
  /\ userId \notin DOMAIN W.userTokens
  /\ userId \notin DOMAIN W.refreshTokens
  /\ userId \notin DOMAIN W.tokenExpiry

\* the caller of the step's request got result r: handleBalance keeps it in
\* response, the profile refresh of the middleware drops it
Reported(step, r) ==
  step.p.pc = "balance_get" =>
    \E q \in BagToSet(procs') :
      q.chat = step.p.chat /\ q.pc = "balance_delete" /\ q.response = r

C17_Step ==
  LET p == fx'.p
  IN /\ RefreshSucceeded(fx') =>
          (/\ fx'.sent = <<[api |-> p.gw.api, userId |-> p.gw.userId, body |-> p.gw.body,
                            auth |-> NewToken(fx'.out), retry |-> TRUE]>>
           /\ getTokenForUser(After, p.gw.userId) = NewToken(fx'.out))
     /\ (\E i \in DOMAIN fx'.sent : fx'.sent[i].retry) => RefreshSucceeded(fx')
     /\ (p.gw.st = "retried" /\ fx'.out.t = "ok") =>
          (/\ Reported(fx', fx'.out.data)
           /\ fx'.sent = <<>>
           /\ getTokenForUser(After, p.gw.userId) = getTokenForUser(World, p.gw.userId))

\* C17: when the refresh that follows a 401 succeeds, the original request
\* is sent again once, with the new access token, and the registry holds
\* that token; no request is sent again on any other occasion; when the
\* retry succeeds the caller gets its reply and the registry is left alone.
C17_RefreshThenRetry == [][C17_Step]_vars

\* the retried balance request has succeeded and the registry holds the
\* new token
C17_Witness ==
  /\ fx.p.pc = "balance_get" /\ fx.p.gw.st = "retried" /\ fx.out.t = "ok"
  /\ getTokenForUser(World, fx.p.chat) = Word("abc2")

C18_Step ==
  RefreshFailed(fx') =>
    (/\ Cleared(After, fx'.p.gw.userId)
     /\ fx'.sent = <<>>
     /\ Reported(fx', Failure(fx'.p.gw.first)))

\* C18: when the refresh that follows a 401 fails (error status, network
\* error, or a reply without a usable access token) the chat's token record
\* is cleared, nothing more is sent (no second refresh, no retry) and the
\* caller gets the failure of the original 401.
C18_RefreshFailedClears == [][C18_Step]_vars

\* the step settles a call with a 401 that is final for it
Unauthorized401(step, st) ==
  /\ step.p.gw.st = st
  /\ step.out = HttpError(Unauthorized)

C19_Step ==
  (/\ Unauthorized401(fx', "sent")
   /\ ~Truthy(Lookup(refreshTokens, fx'.p.gw.userId)))
    => (/\ Cleared(After, fx'.p.gw.userId)
        /\ Reported(fx', Failure(fx'.out)))

\* C19: a 401 on a call of a chat that has no refresh token clears the
\* chat's token record and the caller gets a failure.
C19_NoRefreshTokenClears == [][C19_Step]_vars

C20_Step ==
  Unauthorized401(fx', "retried")
    => (/\ fx'.sent = <<>>
        /\ Reported(fx', Failure(fx'.out))
        /\ Cleared(After, fx'.p.gw.userId))

\* C20: a 401 on the retried request is final: nothing more is sent (no
\* refresh, no retry), the caller gets a failure and the chat's token record
\* is cleared.
C20_SecondUnauthorizedIsFinal == [][C20_Step]_vars

(***************************************************************************)
(* The gateway: one request from its first send to its result.             *)
(***************************************************************************)
\* the processes a step has left suspended
Left(step) == {q \in BagToSet(procs') : CopiesIn(q, procs') > CopiesIn(q, procs)}

\* the refresh calls and the repeated sends among the requests of a step
RefreshCalls(step) == {i \in DOMAIN step.sent : step.sent[i].api = "refresh"}
Resends(step) == {i \in DOMAIN step.sent : step.sent[i].retry}

\* the step has left the request of its process at stage st
Staged(step, st) ==
  \E q \in Left(step) :
    /\ q.chat = step.p.chat /\ q.pc = step.p.pc /\ q.gw.st = st
    /\ q.gw.api = step.p.gw.api /\ q.gw.userId = step.p.gw.userId

\* the step has ended the request of its process: its caller runs on
Ended(step) == \A q \in Left(step) : q.gw.st = "none"

C21_Step ==
  LET p == fx'.p
      refreshes == Cardinality(RefreshCalls(fx'))
      resends == Cardinality(Resends(fx'))
  IN IF fx'.out = NoAnswer
       THEN refreshes = 0 /\ resends = 0
       ELSE CASE p.gw.st = "sent" ->
                   /\ resends = 0
                   /\ refreshes <= 1
                   /\ IF refreshes = 1 THEN Staged(fx', "refreshing") ELSE Ended(fx')
              [] p.gw.st = "refreshing" ->
                   /\ refreshes = 0
                   /\ resends <= 1
                   /\ \A i \in Resends(fx') :
                        fx'.sent[i].api = p.gw.api /\ fx'.sent[i].userId = p.gw.userId
                   /\ IF resends = 1 THEN Staged(fx', "retried") ELSE Ended(fx')
              [] OTHER ->
                   /\ p.gw.st = "retried"
                   /\ refreshes = 0 /\ resends = 0
                   /\ Ended(fx')

\* C21: a gateway request goes through the stages sent, refreshing, retried
\* in that order and never back: a refresh call leaves only on the answer to
\* the first send, a second send only on the answer to the refresh call;
\* every answer either moves the request to the next stage or ends it, and
\* the answer to the second send ends it whatever it is.  So one request
\* makes at most one refresh call and two sends and has its result after at
\* most three answers of the transport.
C21_BoundedRetry == [][C21_Step]_vars

\* the refresh endpoint has itself answered 401 and the request has ended
C21_Witness ==
  /\ fx.p.gw.st = "refreshing" /\ fx.out = HttpError(Unauthorized)
  /\ fx.sent = <<>>
  /\ \A q \in BagToSet(procs) : q.chat = fx.p.chat /\ q.pc = fx.p.pc => q.gw.st = "none"

(***************************************************************************)
(* The authentication gate after the token record has been cleared.        *)
(***************************************************************************)
\* the commands index.ts registers behind requireAuth
AuthCommands ==
  {"profile", "balance", "wallets", "deposit", "set_default_wallet", "send", "transfers"}

\* the step runs the first segment of the handler of an auth-required command
AuthCommandStep(step) ==
  /\ step.p.pc = "update"
  /\ step.p.upd.type = "command"
  /\ step.p.upd.data[2] \in AuthCommands

C22_Step ==
  (AuthCommandStep(fx') /\ Cleared(World, fx'.p.chat))
    => (/\ ~isAuthenticated(World, fx'.p.chat)
        /\ fx'.replies = <<"login_first">>
        /\ fx'.sent = <<>>)

\* C22: once a 401 has cleared the token record of a chat that had logged
\* in, the chat does not pass the authentication gate: its next auth-required
\* command is answered with the login prompt and sends no request.
C22_ClearedMustLogin == [][C22_Step]_vars

(***************************************************************************)
(* Inputs that fail validation: properties.                                *)
(***************************************************************************)
\* the prompt that answers a text which fails the validation of the chat's
\* state: the e-mail test in AUTH_EMAIL, the code test in AUTH_OTP with an
\* e-mail stored, the length test in TRANSFER_WALLET; "" where none fails
Reprompt(W, c, text) ==
  CASE getState(W, c) = AUTH_EMAIL /\ ~emailRegex(text) -> "invalid_email"
    [] /\ getState(W, c) = AUTH_OTP
       /\ Truthy(getTempData(W, c, "email"))
       /\ ~otpRegex(text) -> "otp_format"
    [] getState(W, c) = TRANSFER_WALLET /\ Len(text) < MinAddressLength -> "invalid_address"
    [] OTHER -> ""

C23_Step ==
  LET c == fx'.p.chat
      prompt == Reprompt(World, c, Trim(fx'.p.upd.data))
  IN (TextStep(fx') /\ prompt # "")
       => (/\ fx'.replies = <<prompt>>
           /\ fx'.done
           /\ getState(After, c) = getState(World, c)
           /\ Session(After, c).tempData = Session(World, c).tempData
           /\ HandlerCalls(fx') = {})

FailedOtpRequest(step) ==
  \/ step.p.pc = "email_otp" /\ step.out.t # "ok"
  \/ step.p.pc = "email_delete" /\ ~Truthy(Get(step.p.response, "status"))

\* the same for handleOtpInput and a failed authentication
FailedOtpVerify(step) ==
  \/ step.p.pc = "otp_auth" /\ step.out.t # "ok"
  \/ step.p.pc = "otp_delete" /\ ~Truthy(Get(step.p.authResponse, "status"))

\* the chat has not logged in: no organization id, no token record
LoggedOut(W, c) == ~isAuthenticated(W, c) /\ Cleared(W, c)

C24_Step ==
  LET c == fx'.p.chat
  IN (FailedOtpRequest(fx') \/ FailedOtpVerify(fx'))
       => (/\ getState(After, c) = getState(World, c)
           /\ LoggedOut(World, c) => LoggedOut(After, c)
           /\ fx'.p.pc \in {"email_delete", "otp_delete"} => fx'.done)

\* C24: the handling of a failed OTP request and of a failed OTP
\* authentication ends without a change of the chat's state (AUTH_EMAIL stays
\* AUTH_EMAIL, AUTH_OTP stays AUTH_OTP) and leaves a chat that has not logged
\* in without organization id and without token record, however often it
\* happens.
C24_FailedLoginStays == [][C24_Step]_vars

\* a failed authentication has been handled: the chat is in AUTH_OTP, not
\* logged in
C24_Witness ==
  /\ fx.p.pc = "otp_delete" /\ ~Truthy(Get(fx.p.authResponse, "status"))
  /\ getState(World, fx.p.chat) = AUTH_OTP
  /\ LoggedOut(World, fx.p.chat)

(***************************************************************************)
(* Failures: properties.                                                   *)
(***************************************************************************)
\* the awaits at which a handler, the result of its service call in hand,
\* has its loading message deleted
DeletePcs ==
  {"email_delete", "otp_delete", "profile_delete", "balance_delete", "deposit_delete",
   "wallets_delete"}

\* the result the handler of the step holds: a failed one
HoldsFailure(step) ==
  /\ step.p.pc \in DeletePcs
  /\ ~Truthy(Get(IF step.p.pc = "otp_delete" THEN step.p.authResponse ELSE step.p.response,
                 "status"))

\* the step handles a confirm button whose mode lacks a scratch value
ConfirmsUnfilled(step) ==
  /\ step.p.pc = "update"
  /\ step.p.upd \in ConfirmButtons
  /\ ~Populated(World, step.p.chat, ApiOf(step.p.upd))

C25_Step ==
  /\ HoldsFailure(fx') => fx'.replies # <<>>
  /\ ConfirmsUnfilled(fx') => fx'.replies # <<>>
  /\ (TextStep(fx') /\ fx'.done) => fx'.replies # <<>>

\* C25: a handler that holds a failed service result replies to the chat
\* once its loading message is gone, a confirm handler that misses a scratch
\* value replies, and a handler that ends on the text it was given has
\* replied to it: no failure and no input goes without a message.
C25_FailureIsReported == [][C25_Step]_vars

(***************************************************************************)
(* The services: properties.                                               *)
(***************************************************************************)
\* the transport outcome the service of the step's call gets: the answer, or
\* the first 401 when it is the refresh call that has answered
Outcome(step) == IF step.p.gw.st = "refreshing" THEN step.p.gw.first ELSE step.out

\* the step hands a transport outcome to the service that made the call
Handed(step) ==
  step.out # NoAnswer /\ RefreshCalls(step) = {} /\ Resends(step) = {}

\* the result the service of the step's call returns to its caller
ServiceResult(step) ==
  LET p == step.p
  IN CASE p.pc = "email_otp" -> requestEmailOtp(World, Outcome(step)).r
       [] p.pc = "otp_auth" -> authenticateWithOtp(World, Outcome(step), p.email, p.chat).r
       [] p.gw.api = "me" -> getUserProfile(World, Outcome(step), p.chat).r
       [] OTHER -> plainService(World, Outcome(step)).r

\* a result with a boolean success flag and a message
Uniform(r) == Get(r, "status").k = "boolean" /\ Get(r, "message").k = "string"

C26_Step == Handed(fx') => Uniform(ServiceResult(fx'))

\* C26: whatever the transport gives back for a call (a body, an error
\* status, no answer), the service that made the call returns to its handler
\* a result that has a boolean status and a message.
C26_UniformResult == [][C26_Step]_vars

(***************************************************************************)
(* Responses without markers.                                              *)
(***************************************************************************)
\* the transport's answer is a 200 whose body is an object with no marker:
\* no status, success, code, statusCode or message, and no tokens
Ambiguous(out) ==
  /\ out.t = "ok"
  /\ out.data.k = "object"
  /\ DOMAIN out.data.o \cap {"status", "success", "code", "statusCode", "message", "error",
                              "tokens", "token", "accessToken", "data"} = {}

C27_Step ==
  LET p == fx'.p
      c == p.chat
  IN /\ (p.pc = "email_otp" /\ Ambiguous(fx'.out)) =>
          \E q \in Left(fx') :
            /\ q.chat = c /\ q.pc = "email_delete" /\ q.email = p.email
            /\ Get(q.response, "status") = True
            /\ Get(q.response, "message") = Word("sent")
     /\ (p.pc = "email_delete" /\ Get(p.response, "message") = Word("sent")) =>
          (/\ getState(After, c) = AUTH_OTP
           /\ getTempData(After, c, "email") = p.email
           /\ fx'.replies = <<"code_sent">>
           /\ fx'.done)

\* C27: an OTP-request answer whose body has no marker of success and none
\* of failure is reported by requestEmailOtp as a success with the generic
\* message, and handleEmailInput, given that result, stores the e-mail in
\* scratch, puts the chat in AUTH_OTP and says the code was sent.
C27_AmbiguousRequestSucceeds == [][C27_Step]_vars

\* the chat has gone from AUTH_EMAIL to AUTH_OTP on the generic success
C27_Witness ==
  /\ fx.p.pc = "email_delete" /\ Get(fx.p.response, "message") = Word("sent")
  /\ getState(World, fx.p.chat) = AUTH_OTP
  /\ getTempData(World, fx.p.chat, "email") = Str(EmailText)

\* the result authenticateWithOtp hands to handleOtpInput in the step
Verdict(step) ==
  {q.authResponse : q \in {r \in Left(step) : r.chat = step.p.chat /\ r.pc = "otp_delete"}}

C28_Step ==
  (fx'.p.pc = "otp_auth" /\ Ambiguous(fx'.out))
    => \E r \in Verdict(fx') : Get(r, "status") = True

C28_Amended_Step ==
  LET p == fx'.p
      c == p.chat
  IN /\ (p.pc = "otp_auth" /\ Ambiguous(fx'.out)) =>
          (/\ Verdict(fx') # {}
           /\ \A r \in Verdict(fx') :
                Get(r, "status") = False /\ Get(r, "message") = Word("unexpected_format")
           /\ After.userTokens = userTokens
           /\ After.refreshTokens = refreshTokens
           /\ After.sessions = sessions)
     /\ (p.pc = "otp_delete" /\ Get(p.authResponse, "message") = Word("unexpected_format")) =>
          (/\ fx'.replies = <<"verification_failed">>
           /\ fx'.done
           /\ getState(After, c) = getState(World, c)
           /\ isAuthenticated(After, c) = isAuthenticated(World, c)
           /\ After.userTokens = userTokens)

Fresh(session, chatId) ==
  /\ session.userId = chatId
  /\ session.currentState = START
  /\ session.tempData = <<>>
  /\ "email" \notin DOMAIN session
  /\ "organizationId" \notin DOMAIN session

\* the step handles an update whose handlers read the session and write
\* nothing: /menu (handleMenu), or a text in START (handleAmountInput and
\* handleMessageInput with nothing asked for)
OnlyReads(step) ==
  /\ step.p.pc = "update"
  /\ \/ step.p.upd = Command("menu")
     \/ step.p.upd.type = "text" /\ getState(World, step.p.chat) = START

C29_Step ==
  LET c == fx'.p.chat
  IN /\ DOMAIN sessions \subseteq DOMAIN sessions'
     /\ fx'.p.pc = "update" => c \in DOMAIN sessions'
     /\ DOMAIN sessions' \ DOMAIN sessions \subseteq {c}
     /\ OnlyReads(fx') =>
          IF c \in DOMAIN sessions
            THEN sessions'[c] = sessions[c]
            ELSE Fresh(sessions'[c], c)

\* C29: the first reference to a chat stores a record with the chat's id,
\* state START, an empty scratch map, no e-mail and no organization id;
\* further reads leave the stored record as it is; a chat whose update has
\* been handled has a record, and a record once stored is never removed.
C29_SessionCreatedOnce == [][C29_Step]_vars

\* both chats have a record, one of them still the default after its reads
C29_Witness ==
  /\ DOMAIN sessions = Chats
  /\ fx.p.pc = "update" /\ fx.p.upd = Command("menu")
  /\ Fresh(sessions[fx.p.chat], fx.p.chat)

\* the step runs handleLogout: the command, or the button of the menu
LogoutHandled(step) ==
  \/ step.p.pc = "update" /\ step.p.upd = Command("logout")
  \/ step.p.pc = "menu_ack" /\ step.p.action = <<"logout">>

C30_Step ==
  LogoutHandled(fx')
    => (/\ Fresh(sessions'[fx'.p.chat], fx'.p.chat)
        /\ ~isAuthenticated(After, fx'.p.chat))

\* C30: when clearSession has run (handleLogout), whatever the chat's record
\* held, the record is as new - the chat's id, START, an empty scratch map,
\* no e-mail, no organization id - and the chat is not authenticated.
C30_ClearedSessionIsFresh == [][C30_Step]_vars

\* the /logout of a chat that was authenticated (the middleware has started
\* its profile refresh) has been handled
C30_Witness ==
  /\ fx.p.pc = "update" /\ fx.p.upd = Command("logout")
  /\ \E q \in BagToSet(procs) :
       q.chat = fx.p.chat /\ q.pc = "bg_profile" /\ q.upd = Command("logout")
  /\ Fresh(sessions[fx.p.chat], fx.p.chat)

(***************************************************************************)
(* The session store's mutators: properties.                               *)
(***************************************************************************)
\* the fields of the records r and s other than those of names are the same
\* fields with the same values
SameBut(r, s, names) ==
  /\ DOMAIN r \ names = DOMAIN s \ names
  /\ \A f \in DOMAIN r \ names : r[f] = s[f]

C31_Step ==
  LET c == fx'.p.chat
      name == fx'.p.pc
      args == fx'.p.args
      before == IF c \in DOMAIN sessions THEN sessions[c] ELSE DefaultSession(c)
      after == sessions'[c]
  IN /\ \A b \in DOMAIN sessions \ {c} : b \in DOMAIN sessions' /\ sessions'[b] = sessions[b]
     /\ DOMAIN sessions' = DOMAIN sessions \cup {c}
     /\ <<userTokens', refreshTokens', tokenExpiry'>> = <<userTokens, refreshTokens, tokenExpiry>>
     /\ name = "setSession" =>
          /\ SameBut(before, after, DOMAIN args)
          /\ \A f \in DOMAIN args : after[f] = args[f]
     /\ name = "updateState" =>
          /\ SameBut(before, after, {"currentState"})
          /\ after.currentState = args.state
     /\ name = "setTempData" =>
          /\ SameBut(before, after, {"tempData"})
          /\ SameBut(before.tempData, after.tempData, {args.key})
          /\ after.tempData[args.key] = args.value
     /\ name = "clearTempData" =>
          /\ SameBut(before, after, {"tempData"})
          /\ after.tempData = <<>>

\* C31: a session mutator changes only its own part of the record of the
\* chat it is called for: setSession the fields it is given, updateState the
\* state, setTempData the one scratch key, clearTempData the scratch map.  The
\* e-mail, the organization id, every field not named, the records of the
\* other chats and the token registry stay as they were.
C31_MutatorsFrame == [][C31_Step]_vars

\* clearTempData has emptied the scratch map of an authenticated chat that is
\* in a state other than the one it logged in to
C31_Witness ==
  /\ fx.p.pc = "clearTempData"
  /\ fx.p.chat \in DOMAIN sessions
  /\ isAuthenticated(World, fx.p.chat)
  /\ sessions[fx.p.chat].currentState = TRANSFER_EMAIL
  /\ sessions[fx.p.chat].tempData = <<>>
  /\ \E b \in DOMAIN sessions \ {fx.p.chat} : sessions[b].tempData # <<>>

(***************************************************************************)
(* The token registry: properties.                                         *)
(***************************************************************************)
\* C32: clearTokenForUser deletes the access token, the refresh token and
\* the expiry together, and whatever the order of the handlers' segments and
\* the gateway's answers, no chat holds a refresh token or an expiry without
\* an access token.
C32_NoPartialRegistry ==
  \A c \in Chats :
    (Truthy(Lookup(refreshTokens, c)) \/ c \in DOMAIN tokenExpiry)
      => Truthy(Lookup(userTokens, c))

\* a refresh that a chat's refresh token started has failed and the registry
\* has been cleared while another call of the chat is in flight
C32_Witness ==
  /\ fx.p.gw.st = "refreshing"
  /\ fx.out.t # "ok"
  /\ Cleared(World, fx.p.chat)
  /\ \E q \in BagToSet(procs) : q.chat = fx.p.chat /\ q.gw.st # "none"

(***************************************************************************)
(* The shapes of an OTP-verify answer: properties.                         *)
(***************************************************************************)
\* the access tokens a body offers, in the order of the probes: under data
\* with a true status, at the top level under tokens, bare
Offers(body) ==
  <<IF Get(body, "status") = True \/ Get(body, "success") = True
      THEN Path(body, <<"data", "tokens", "access", "token">>) ELSE Undefined,
    Path(body, <<"tokens", "access", "token">>),
    IF Truthy(Get(body, "token")) THEN Get(body, "token") ELSE Get(body, "accessToken")>>

\* the shapes a body matches, by their place in the order
Matches(body) == {i \in 1..3 : Truthy(Offers(body)[i])}

\* the earliest shape a body matches
Earliest(body) == CHOOSE i \in Matches(body) : \A j \in Matches(body) : i <= j

\* the step gives authenticateWithOtp the transport's answer
VerifyAnswered(step) == step.p.pc = "otp_auth" /\ step.p.gw.st = "sent" /\ step.out.t = "ok"

C33_Step ==
  (VerifyAnswered(fx') /\ Cardinality(Matches(fx'.out.data)) >= 2)
    => Lookup(userTokens', fx'.p.chat) = Offers(fx'.out.data)[Earliest(fx'.out.data)]

\* C33: when the answer to an OTP verification matches several of the
\* shapes canonical envelope (true status and data.tokens.access.token),
\* flattened envelope (tokens.access.token) and bare token (token or
\* accessToken), the access token stored for the chat is the one of the
\* earliest of them in that order.
C33_FirstShapeWins == [][C33_Step]_vars

\* a body that matched all three shapes has been handled and the chat holds
\* the token of the canonical one
C33_Witness ==
  /\ fx.p.pc = "otp_auth"
  /\ fx.out.t = "ok"
  /\ Matches(fx.out.data) = {1, 2, 3}
  /\ Lookup(userTokens, fx.p.chat) = Word("canonical")

(***************************************************************************)
(* Buttons of the transfer flow pressed during a login: properties.        *)
(***************************************************************************)
\* the step runs a segment of the handler of a transfer-flow button while
\* the chat is in a state that takes free text only
MisroutedStep(step) ==
  /\ step.p.pc # "init"
  /\ step.p.upd.type = "callback"
  /\ step.p.upd.data \in TransferButtons
  /\ step.p.chat \in DOMAIN sessions
  /\ sessions[step.p.chat].currentState \in {AUTH_EMAIL, AUTH_OTP}

C34_Step ==
  MisroutedStep(fx')
    => (/\ sessions'[fx'.p.chat].currentState = sessions[fx'.p.chat].currentState
        /\ sessions'[fx'.p.chat].tempData = sessions[fx'.p.chat].tempData
        /\ <<userTokens', refreshTokens', tokenExpiry'>> = <<userTokens, refreshTokens, tokenExpiry>>
        /\ HandlerCalls(fx') = {})

\* C34: a button of the transfer flow (transfer:*, network:*, confirm_*,
\* cancel_transfer) handled while the chat is in AUTH_EMAIL or AUTH_OTP
\* changes neither the conversation state nor the scratch data nor the token
\* record, and sends no request.
C34_MisroutedButtonIsIgnored == [][C34_Step]_vars

(***************************************************************************)
(* A chat that never logs in: properties.                                  *)
(***************************************************************************)
C35_Step ==
  Submissions(fx') # {} => isAuthenticated(World, fx'.p.chat)

\* C35: a transfer request (e-mail, wallet or bank) is sent only for a chat
\* whose session is authenticated when the request leaves.
C35_SubmitOnlyAuthenticated == [][C35_Step]_vars

(***************************************************************************)
(* The session and the token registry together: properties.                *)
(***************************************************************************)
\* C36: in every state a chat whose session is authenticated (its
\* organization id is set) has an access token in the registry.
C36_AuthenticatedHoldsToken ==
  \A c \in DOMAIN sessions :
    isAuthenticated(World, c) => Truthy(getTokenForUser(World, c))

(***************************************************************************)
(* A refused OTP verification: properties.                                 *)
(***************************************************************************)
C37_Step ==
  (VerifyAnswered(fx') /\ Get(fx'.out.data, "status") = False)
    => (/\ <<userTokens', refreshTokens', tokenExpiry'>> = <<userTokens, refreshTokens, tokenExpiry>>
        /\ \A r \in Verdict(fx') : Get(r, "status") # True)

\* C37: an OTP-verify answer whose status is false stores no token and is
\* not handed to handleOtpInput as a success (which alone authenticates the
\* session), whatever tokens the body carries elsewhere.
C37_RefusedStoresNothing == [][C37_Step]_vars

(***************************************************************************)
(* A logout while an OTP verification is in flight: properties.            *)
(***************************************************************************)
\* the step runs a segment of handleOtpInput after its first await, on a
\* record a logout has cleared since the handler began (the handler begins
\* in AUTH_OTP with the login address in the scratch data)
OtpAfterLogout(step) ==
  /\ step.p.pc \in {"otp_auth", "otp_delete"}
  /\ step.p.chat \in DOMAIN sessions
  /\ Fresh(sessions[step.p.chat], step.p.chat)

C38_Step ==
  OtpAfterLogout(fx')
    => (/\ ~isAuthenticated(After, fx'.p.chat)
        /\ getState(After, fx'.p.chat) = START)

\* C38: an OTP verification that was in flight when the chat logged out does
\* not, on completing, authenticate the session or move it out of START.
C38_LogoutIsFinal == [][C38_Step]_vars

\* the verification handed to the step succeeded and names the user
VerifiedUser(step) ==
  /\ step.p.pc = "otp_delete"
  /\ Truthy(Get(step.p.authResponse, "status"))
  /\ Path(step.p.authResponse, <<"data", "user">>).k = "object"

C38_Amended_Step ==
  LET c == fx'.p.chat
      userData == Path(fx'.p.authResponse, <<"data", "user">>)
  IN /\ (OtpAfterLogout(fx') /\ VerifiedUser(fx'))
          => (/\ getState(After, c) = MAIN_MENU
              /\ Lookup(sessions'[c], "organizationId") = Get(userData, "organizationId")
              /\ Lookup(sessions'[c], "email") = Get(userData, "email"))
     /\ (OtpAfterLogout(fx') /\ ~VerifiedUser(fx'))
          => (~isAuthenticated(After, c) /\ getState(After, c) = START)

\* C38 as amended: the later write wins.  An OTP verification that was in
\* flight when the chat logged out writes the session when it completes with
\* a success that names the user: the chat is moved to MAIN_MENU with the
\* user's e-mail and organization id, so it is authenticated again when that
\* id is set.  Until then, and when the verification fails, the chat stays
\* unauthenticated and in START.
C38_LaterWriteWins == [][C38_Amended_Step]_vars

\* a verification has completed after a logout and authenticated the chat:
\* the scratch data, emptied by the logout, no longer hold the login address
C38_Witness ==
  /\ fx.p.pc = "otp_delete"
  /\ VerifiedUser(fx)
  /\ isAuthenticated(World, fx.p.chat)
  /\ getState(World, fx.p.chat) = MAIN_MENU
  /\ sessions[fx.p.chat].tempData = <<>>

(***************************************************************************)
(* Two requests of a chat refused at once: properties.                     *)
(***************************************************************************)
\* the registry holds for the step's chat the access token a refresh gave
HoldsRefreshed(step) ==
  Lookup(userTokens, step.p.gw.userId) = NewToken(HttpOk(Refreshed))

C39_Step ==
  (RefreshFailed(fx') /\ HoldsRefreshed(fx'))
    => Lookup(userTokens', fx'.p.gw.userId) = Lookup(userTokens, fx'.p.gw.userId)

\* C39: when two requests of a chat are refused with 401 and the refresh of
\* one has stored a new access token, the failing refresh of the other does
\* not delete it.
C39_RefreshedTokenSurvives == [][C39_Step]_vars

(***************************************************************************)
(* Two chats side by side: properties.                                     *)
(***************************************************************************)
\* what the process holds for a chat: its session record and its token record
Held(W, c) ==
  <<Lookup(W.sessions, c), Lookup(W.userTokens, c), Lookup(W.refreshTokens, c),
    Lookup(W.tokenExpiry, c)>>

C40_Step ==
  \A b \in Chats \ {fx'.p.chat} : Held(After, b) = Held(World, b)

====
